---- MODULE Spec2Model ----
(***************************************************************************)
(* Model of the ecproc IDE core: the technique catalog (techniques.js),    *)
(* the validator (validation.js) and the editor operations of App.jsx      *)
(* that feed steps into them.                                              *)
(*                                                                         *)
(* JavaScript values are modelled by a tagged record.  Numbers are exact   *)
(* decimal fixed-point values w + m / Scale with 0 <= m < Scale, which     *)
(* represents every numeric literal of the catalog and of the validator    *)
(* (from 0.0000001 up to 20000000) without rounding.                       *)
(***************************************************************************)
EXTENDS Integers, Sequences, FiniteSets, TLC

VARIABLES
  steps,      \* the ordered step list handed to the validator
  metadata,   \* the procedure metadata handed to the validator
  nextId,     \* allocation counter: ids and object identities handed out so far
  thrown,     \* <<message, argument>> of the exception the last operation raised, or <<>>
  stepIssues, \* stepIssues[i] = validateStep(steps[i]) for the current list
  procIssues, \* validateProcedure(steps, metadata) for the current list
  valid,      \* isValid(steps, metadata) for the current list
  issues,     \* the issue list handed to summarizeIssues
  summary,    \* { errors, warnings, infos } returned by summarizeIssues
  called,     \* the validator calls made so far on the input under test
  clock,      \* Date.now(), in milliseconds
  file,       \* the file last generated by the editor or picked for import
  origin,     \* the step list `file` was generated from (<<>> for a picked file)
  retired,    \* the ids of the steps that have left the step list
  logged,     \* what the last handler called console.error with
  overwritten, \* the positions of the array it was handed that the last handler assigned
  store,      \* localStorage: what is kept under STORAGE_KEY
  timers,     \* the pending timeouts, each with the state its callback closes over
  timerRef,   \* timerRef.current: the id of the timeout set last (0 for null)
  mounted     \* whether the App component is mounted

libVars    == <<steps, metadata, nextId, thrown, stepIssues, procIssues, valid>>
callVars   == <<issues, summary, called>>
storeVars  == <<store, timers, timerRef, mounted>>
editorVars == <<clock, file, origin, retired, logged, overwritten, storeVars>>

vars == <<steps, metadata, nextId, thrown, stepIssues, procIssues, valid,
          issues, summary, called, clock, file, origin, retired, logged,
          overwritten, store, timers, timerRef, mounted>>

---------------------------------------------------------------------------
(* JavaScript values *)

Scale == 10 ^ 7

Val(k, w, m, s) == [k |-> k, w |-> w, m |-> m, s |-> s]
Dec(i, f)  == Val("num", i, f, "")             \* i + f/Scale, i >= 0
Neg(x)     == IF x.m = 0 THEN Val("num", 0 - x.w, 0, "")
              ELSE Val("num", 0 - x.w - 1, Scale - x.m, "")
NULL       == Val("null", 0, 0, "")
UNDEFINED  == Val("undefined", 0, 0, "")
NAN        == Val("nan", 0, 0, "")
Bool(b)    == Val("bool", IF b THEN 1 ELSE 0, 0, "")
Str(s)     == Val("str", 0, 0, s)

IsNum(v) == v.k = "num"

\* The numeric value of the strings the model uses: Number(s) and
\* parseFloat(s) agree on them except for "-0.5 to 2.0".
StringToNumber(s) ==
  CASE s = "0.5" -> Dec(0, 5000000)
    [] s = "15"  -> Dec(15, 0)
    [] s = ""    -> Dec(0, 0)
    [] OTHER     -> NAN

\* ECMAScript ToNumber, as applied by the relational operators and Math.abs
ToNumber(v) ==
  CASE v.k = "num"  -> v
    [] v.k = "null" -> Dec(0, 0)
    [] v.k = "bool" -> Dec(v.w, 0)
    [] v.k = "str"  -> StringToNumber(v.s)
    [] OTHER        -> NAN

\* parseFloat(v): parses the longest numeric prefix of String(v)
parseFloat(v) ==
  CASE v.k = "num" -> v
    [] v.k = "str" -> IF v.s = "-0.5 to 2.0" THEN Neg(Dec(0, 5000000))
                      ELSE IF v.s = "" THEN NAN ELSE StringToNumber(v.s)
    [] OTHER       -> NAN

NumLt(x, y) == x.w < y.w \/ (x.w = y.w /\ x.m < y.m)

\* a < b, a > b, a <= b, a >= b of JavaScript with a number on the right
JsLt(a, b) == LET x == ToNumber(a) y == ToNumber(b)
              IN  IsNum(x) /\ IsNum(y) /\ NumLt(x, y)
JsGt(a, b) == JsLt(b, a)
JsLe(a, b) == LET x == ToNumber(a) y == ToNumber(b)
              IN  IsNum(x) /\ IsNum(y) /\ ~NumLt(y, x)
JsGe(a, b) == JsLe(b, a)

\* a === b on the results of parseFloat (NaN equals nothing)
StrictEqNum(a, b) == IsNum(a) /\ IsNum(b) /\ a = b

\* Math.abs(v)
MathAbs(v) == LET x == ToNumber(v)
              IN  IF IsNum(x) /\ x.w < 0 THEN Neg(x) ELSE x

---------------------------------------------------------------------------
(* techniques.js: the catalog *)

TECHNIQUES ==
  [ocp |-> [id |-> "ocp", category |-> "measurement",
    keys |-> <<"duration_s", "stability_mV_min", "sample_rate_Hz">>,
    params |-> [
      duration_s |-> [type |-> "number", default |-> Dec(60, 0),
        hasMin |-> TRUE, min |-> Dec(1, 0), hasMax |-> TRUE, max |-> Dec(86400, 0)],
      stability_mV_min |-> [type |-> "number", default |-> Dec(1, 0),
        hasMin |-> TRUE, min |-> Dec(0, 1000000), hasMax |-> TRUE, max |-> Dec(100, 0)],
      sample_rate_Hz |-> [type |-> "number", default |-> Dec(1, 0),
        hasMin |-> TRUE, min |-> Dec(0, 1000000), hasMax |-> TRUE, max |-> Dec(1000, 0)]]],
  cv |-> [id |-> "cv", category |-> "voltammetry",
    keys |-> <<"vertex1_V", "vertex2_V", "scan_rate_mV_s", "cycles", "start_potential_V", "ir_compensation">>,
    params |-> [
      vertex1_V |-> [type |-> "number", default |-> Dec(0, 500000),
        hasMin |-> TRUE, min |-> Neg(Dec(3, 0)), hasMax |-> TRUE, max |-> Dec(3, 0)],
      vertex2_V |-> [type |-> "number", default |-> Dec(1, 2000000),
        hasMin |-> TRUE, min |-> Neg(Dec(3, 0)), hasMax |-> TRUE, max |-> Dec(3, 0)],
      scan_rate_mV_s |-> [type |-> "number", default |-> Dec(50, 0),
        hasMin |-> TRUE, min |-> Dec(0, 1000000), hasMax |-> TRUE, max |-> Dec(10000, 0)],
      cycles |-> [type |-> "integer", default |-> Dec(3, 0),
        hasMin |-> TRUE, min |-> Dec(1, 0), hasMax |-> TRUE, max |-> Dec(1000000, 0)],
      start_potential_V |-> [type |-> "number", default |-> NULL,
        hasMin |-> TRUE, min |-> Neg(Dec(3, 0)), hasMax |-> TRUE, max |-> Dec(3, 0)],
      ir_compensation |-> [type |-> "boolean", default |-> Bool(FALSE),
        hasMin |-> FALSE, min |-> UNDEFINED, hasMax |-> FALSE, max |-> UNDEFINED]]],
  lsv |-> [id |-> "lsv", category |-> "voltammetry",
    keys |-> <<"start_V", "end_V", "scan_rate_mV_s", "ir_compensation">>,
    params |-> [
      start_V |-> [type |-> "number", default |-> Dec(1, 0),
        hasMin |-> TRUE, min |-> Neg(Dec(3, 0)), hasMax |-> TRUE, max |-> Dec(3, 0)],
      end_V |-> [type |-> "number", default |-> Dec(0, 2000000),
        hasMin |-> TRUE, min |-> Neg(Dec(3, 0)), hasMax |-> TRUE, max |-> Dec(3, 0)],
      scan_rate_mV_s |-> [type |-> "number", default |-> Dec(5, 0),
        hasMin |-> TRUE, min |-> Dec(0, 1000000), hasMax |-> TRUE, max |-> Dec(10000, 0)],
      ir_compensation |-> [type |-> "boolean", default |-> Bool(FALSE),
        hasMin |-> FALSE, min |-> UNDEFINED, hasMax |-> FALSE, max |-> UNDEFINED]]],
  dpv |-> [id |-> "dpv", category |-> "voltammetry",
    keys |-> <<"start_V", "end_V", "pulse_height_mV", "pulse_width_ms", "step_height_mV", "sample_period_ms">>,
    params |-> [
      start_V |-> [type |-> "number", default |-> Dec(0, 0),
        hasMin |-> TRUE, min |-> Neg(Dec(3, 0)), hasMax |-> TRUE, max |-> Dec(3, 0)],
      end_V |-> [type |-> "number", default |-> Dec(1, 0),
        hasMin |-> TRUE, min |-> Neg(Dec(3, 0)), hasMax |-> TRUE, max |-> Dec(3, 0)],
      pulse_height_mV |-> [type |-> "number", default |-> Dec(50, 0),
        hasMin |-> TRUE, min |-> Dec(1, 0), hasMax |-> TRUE, max |-> Dec(250, 0)],
      pulse_width_ms |-> [type |-> "number", default |-> Dec(50, 0),
        hasMin |-> TRUE, min |-> Dec(1, 0), hasMax |-> TRUE, max |-> Dec(1000, 0)],
      step_height_mV |-> [type |-> "number", default |-> Dec(5, 0),
        hasMin |-> TRUE, min |-> Dec(0, 1000000), hasMax |-> TRUE, max |-> Dec(50, 0)],
      sample_period_ms |-> [type |-> "number", default |-> Dec(20, 0),
        hasMin |-> TRUE, min |-> Dec(1, 0), hasMax |-> TRUE, max |-> Dec(500, 0)]]],
  swv |-> [id |-> "swv", category |-> "voltammetry",
    keys |-> <<"start_V", "end_V", "frequency_Hz", "amplitude_mV", "step_height_mV">>,
    params |-> [
      start_V |-> [type |-> "number", default |-> Dec(0, 0),
        hasMin |-> TRUE, min |-> Neg(Dec(3, 0)), hasMax |-> TRUE, max |-> Dec(3, 0)],
      end_V |-> [type |-> "number", default |-> Dec(1, 0),
        hasMin |-> TRUE, min |-> Neg(Dec(3, 0)), hasMax |-> TRUE, max |-> Dec(3, 0)],
      frequency_Hz |-> [type |-> "number", default |-> Dec(25, 0),
        hasMin |-> TRUE, min |-> Dec(1, 0), hasMax |-> TRUE, max |-> Dec(500, 0)],
      amplitude_mV |-> [type |-> "number", default |-> Dec(25, 0),
        hasMin |-> TRUE, min |-> Dec(1, 0), hasMax |-> TRUE, max |-> Dec(250, 0)],
      step_height_mV |-> [type |-> "number", default |-> Dec(5, 0),
        hasMin |-> TRUE, min |-> Dec(0, 1000000), hasMax |-> TRUE, max |-> Dec(50, 0)]]],
  stripping |-> [id |-> "stripping", category |-> "voltammetry",
    keys |-> <<"deposition_V", "deposition_time_s", "equilibration_s", "strip_start_V", "strip_end_V", "scan_rate_mV_s">>,
    params |-> [
      deposition_V |-> [type |-> "number", default |-> Neg(Dec(0, 8000000)),
        hasMin |-> TRUE, min |-> Neg(Dec(3, 0)), hasMax |-> TRUE, max |-> Dec(3, 0)],
      deposition_time_s |-> [type |-> "number", default |-> Dec(120, 0),
        hasMin |-> TRUE, min |-> Dec(1, 0), hasMax |-> TRUE, max |-> Dec(3600, 0)],
      equilibration_s |-> [type |-> "number", default |-> Dec(10, 0),
        hasMin |-> TRUE, min |-> Dec(0, 0), hasMax |-> TRUE, max |-> Dec(120, 0)],
      strip_start_V |-> [type |-> "number", default |-> Neg(Dec(0, 8000000)),
        hasMin |-> TRUE, min |-> Neg(Dec(3, 0)), hasMax |-> TRUE, max |-> Dec(3, 0)],
      strip_end_V |-> [type |-> "number", default |-> Dec(0, 3000000),
        hasMin |-> TRUE, min |-> Neg(Dec(3, 0)), hasMax |-> TRUE, max |-> Dec(3, 0)],
      scan_rate_mV_s |-> [type |-> "number", default |-> Dec(50, 0),
        hasMin |-> TRUE, min |-> Dec(1, 0), hasMax |-> TRUE, max |-> Dec(1000, 0)]]],
  eis |-> [id |-> "eis", category |-> "impedance",
    keys |-> <<"f_start_Hz", "f_end_Hz", "amplitude_mV", "dc_potential_V", "points_per_decade">>,
    params |-> [
      f_start_Hz |-> [type |-> "number", default |-> Dec(100000, 0),
        hasMin |-> TRUE, min |-> Dec(0, 10), hasMax |-> TRUE, max |-> Dec(10000000, 0)],
      f_end_Hz |-> [type |-> "number", default |-> Dec(0, 1000000),
        hasMin |-> TRUE, min |-> Dec(0, 10), hasMax |-> TRUE, max |-> Dec(10000000, 0)],
      amplitude_mV |-> [type |-> "number", default |-> Dec(10, 0),
        hasMin |-> TRUE, min |-> Dec(1, 0), hasMax |-> TRUE, max |-> Dec(100, 0)],
      dc_potential_V |-> [type |-> "string", default |-> Str("OCP"),
        hasMin |-> FALSE, min |-> UNDEFINED, hasMax |-> FALSE, max |-> UNDEFINED],
      points_per_decade |-> [type |-> "integer", default |-> Dec(10, 0),
        hasMin |-> TRUE, min |-> Dec(1, 0), hasMax |-> TRUE, max |-> Dec(50, 0)]]],
  ca |-> [id |-> "ca", category |-> "chronomethod",
    keys |-> <<"potential_V", "duration_s", "sample_rate_Hz">>,
    params |-> [
      potential_V |-> [type |-> "number", default |-> Dec(1, 5000000),
        hasMin |-> TRUE, min |-> Neg(Dec(3, 0)), hasMax |-> TRUE, max |-> Dec(3, 0)],
      duration_s |-> [type |-> "number", default |-> Dec(3600, 0),
        hasMin |-> TRUE, min |-> Dec(1, 0), hasMax |-> TRUE, max |-> Dec(604800, 0)],
      sample_rate_Hz |-> [type |-> "number", default |-> Dec(1, 0),
        hasMin |-> TRUE, min |-> Dec(0, 10000), hasMax |-> TRUE, max |-> Dec(1000, 0)]]],
  cp |-> [id |-> "cp", category |-> "chronomethod",
    keys |-> <<"current_mA", "duration_s", "voltage_limits_V">>,
    params |-> [
      current_mA |-> [type |-> "number", default |-> Dec(10, 0),
        hasMin |-> TRUE, min |-> Neg(Dec(1000, 0)), hasMax |-> TRUE, max |-> Dec(1000, 0)],
      duration_s |-> [type |-> "number", default |-> Dec(3600, 0),
        hasMin |-> TRUE, min |-> Dec(1, 0), hasMax |-> TRUE, max |-> Dec(604800, 0)],
      voltage_limits_V |-> [type |-> "string", default |-> Str("-0.5 to 2.0"),
        hasMin |-> FALSE, min |-> UNDEFINED, hasMax |-> FALSE, max |-> UNDEFINED]]],
  gcd |-> [id |-> "gcd", category |-> "chronomethod",
    keys |-> <<"current_mA", "upper_V", "lower_V", "cycles">>,
    params |-> [
      current_mA |-> [type |-> "number", default |-> Dec(10, 0),
        hasMin |-> TRUE, min |-> Dec(0, 10000), hasMax |-> TRUE, max |-> Dec(1000, 0)],
      upper_V |-> [type |-> "number", default |-> Dec(1, 0),
        hasMin |-> TRUE, min |-> Neg(Dec(3, 0)), hasMax |-> TRUE, max |-> Dec(5, 0)],
      lower_V |-> [type |-> "number", default |-> Dec(0, 0),
        hasMin |-> TRUE, min |-> Neg(Dec(3, 0)), hasMax |-> TRUE, max |-> Dec(5, 0)],
      cycles |-> [type |-> "integer", default |-> Dec(5, 0),
        hasMin |-> TRUE, min |-> Dec(1, 0), hasMax |-> TRUE, max |-> Dec(10000, 0)]]],
  cc |-> [id |-> "cc", category |-> "chronomethod",
    keys |-> <<"mode", "setpoint", "duration_s", "cutoff_C">>,
    params |-> [
      mode |-> [type |-> "select", default |-> Str("potentiostatic"),
        hasMin |-> FALSE, min |-> UNDEFINED, hasMax |-> FALSE, max |-> UNDEFINED],
      setpoint |-> [type |-> "number", default |-> Dec(1, 0),
        hasMin |-> TRUE, min |-> Neg(Dec(10, 0)), hasMax |-> TRUE, max |-> Dec(10, 0)],
      duration_s |-> [type |-> "number", default |-> Dec(600, 0),
        hasMin |-> TRUE, min |-> Dec(1, 0), hasMax |-> TRUE, max |-> Dec(86400, 0)],
      cutoff_C |-> [type |-> "number", default |-> NULL,
        hasMin |-> TRUE, min |-> Dec(0, 0), hasMax |-> TRUE, max |-> Dec(10000, 0)]]],
  purge |-> [id |-> "purge", category |-> "auxiliary",
    keys |-> <<"gas", "duration_min", "flow_rate_mL_min">>,
    params |-> [
      gas |-> [type |-> "select", default |-> Str("N2"),
        hasMin |-> FALSE, min |-> UNDEFINED, hasMax |-> FALSE, max |-> UNDEFINED],
      duration_min |-> [type |-> "number", default |-> Dec(20, 0),
        hasMin |-> TRUE, min |-> Dec(1, 0), hasMax |-> TRUE, max |-> Dec(120, 0)],
      flow_rate_mL_min |-> [type |-> "number", default |-> Dec(50, 0),
        hasMin |-> TRUE, min |-> Dec(1, 0), hasMax |-> TRUE, max |-> Dec(500, 0)]]]]

\* the category table with cc left out of the chronomethod list
TECHNIQUE_CATEGORIES_MissingCc ==
  [measurement  |-> [techniques |-> <<"ocp">>],
   voltammetry  |-> [techniques |-> <<"cv", "lsv", "dpv", "swv", "stripping">>],
   impedance    |-> [techniques |-> <<"eis">>],
   chronomethod |-> [techniques |-> <<"ca", "cp", "gcd">>],
   auxiliary    |-> [techniques |-> <<"purge">>]]

TECHNIQUE_CATEGORIES ==
  [measurement  |-> [techniques |-> <<"ocp">>],
   voltammetry  |-> [techniques |-> <<"cv", "lsv", "dpv", "swv", "stripping">>],
   impedance    |-> [techniques |-> <<"eis">>],
   chronomethod |-> [techniques |-> <<"ca", "cp", "gcd", "cc">>],
   auxiliary    |-> [techniques |-> <<"purge">>]]

TechIds == DOMAIN TECHNIQUES

\* id is an own key of TECHNIQUES
Known(id) == id \in TechIds

\* names that every object literal inherits from Object.prototype
ObjectPrototypeKeys == {"constructor", "toString", "valueOf", "hasOwnProperty"}

\* TECHNIQUES[k] is truthy: k is a technique id or an inherited name;
\* undefined for any other k
Resolves(k) == k \in TechIds \cup ObjectPrototypeKeys

\* Object.entries / property access on a params object, which is kept as
\* the insertion-ordered sequence of its [key, value] entries
HasKey(params, key) == \E n \in 1..Len(params) : params[n].key = key

Get(params, key) ==
  IF HasKey(params, key)
  THEN params[CHOOSE n \in 1..Len(params) : params[n].key = key].value
  ELSE UNDEFINED

\* params[key] = value: overwrites in place, or appends a new property
Put(params, key, value) ==
  IF HasKey(params, key)
  THEN [n \in 1..Len(params) |->
          IF params[n].key = key THEN [key |-> key, value |-> value]
          ELSE params[n]]
  ELSE Append(params, [key |-> key, value |-> value])

\* the loop of createDefaultStep: params[key] = config.default per entry
DefaultParams(techniqueId) ==
  LET tech == TECHNIQUES[techniqueId]
  IN  [n \in 1..Len(tech.keys) |->
         [key |-> tech.keys[n], value |-> tech.params[tech.keys[n]].default]]

\* `step-${Date.now()}-${Math.random().toString(36).substr(2, 9)}`: the
\* two parts are separated by a character neither of them holds
StepId(now, random) == <<now, random>>

\* createDefaultStep(techniqueId) for a known id; `id` is the identifier it
\* generates and `fresh` the identity of the params object it builds
createDefaultStep(techniqueId, id, fresh) ==
  [id        |-> id,
   technique |-> techniqueId,
   params    |-> DefaultParams(techniqueId),
   tag       |-> "",
   obj       |-> fresh]

\* createDefaultStep throws: at its guard when TECHNIQUES[techniqueId] is
\* undefined, at Object.entries(tech.params) when it is an inherited member
createDefaultStepThrows(techniqueId) == ~Known(techniqueId)

\* what it throws
createDefaultStepError(techniqueId) ==
  IF Resolves(techniqueId) THEN "TypeError" ELSE "Unknown technique"
---------------------------------------------------------------------------
(* Parameter keys as the string operations of the import see them *)

\* every parameter key of the catalog, split at its underscores
KeyTokens ==
  [ duration_s |-> <<"duration", "s">>,
   stability_mV_min |-> <<"stability", "mV", "min">>,
   sample_rate_Hz |-> <<"sample", "rate", "Hz">>,
   vertex1_V |-> <<"vertex1", "V">>,
   vertex2_V |-> <<"vertex2", "V">>,
   scan_rate_mV_s |-> <<"scan", "rate", "mV", "s">>,
   cycles |-> <<"cycles">>,
   start_potential_V |-> <<"start", "potential", "V">>,
   ir_compensation |-> <<"ir", "compensation">>,
   start_V |-> <<"start", "V">>,
   end_V |-> <<"end", "V">>,
   pulse_height_mV |-> <<"pulse", "height", "mV">>,
   pulse_width_ms |-> <<"pulse", "width", "ms">>,
   step_height_mV |-> <<"step", "height", "mV">>,
   sample_period_ms |-> <<"sample", "period", "ms">>,
   frequency_Hz |-> <<"frequency", "Hz">>,
   amplitude_mV |-> <<"amplitude", "mV">>,
   deposition_V |-> <<"deposition", "V">>,
   deposition_time_s |-> <<"deposition", "time", "s">>,
   equilibration_s |-> <<"equilibration", "s">>,
   strip_start_V |-> <<"strip", "start", "V">>,
   strip_end_V |-> <<"strip", "end", "V">>,
   f_start_Hz |-> <<"f", "start", "Hz">>,
   f_end_Hz |-> <<"f", "end", "Hz">>,
   dc_potential_V |-> <<"dc", "potential", "V">>,
   points_per_decade |-> <<"points", "per", "decade">>,
   potential_V |-> <<"potential", "V">>,
   current_mA |-> <<"current", "mA">>,
   voltage_limits_V |-> <<"voltage", "limits", "V">>,
   upper_V |-> <<"upper", "V">>,
   lower_V |-> <<"lower", "V">>,
   mode |-> <<"mode">>,
   setpoint |-> <<"setpoint">>,
   cutoff_C |-> <<"cutoff", "C">>,
   gas |-> <<"gas">>,
   duration_min |-> <<"duration", "min">>,
   flow_rate_mL_min |-> <<"flow", "rate", "mL", "min">>]

Split(key) == KeyTokens[key]

\* a token made of the characters [A-Za-z] only
IsAlphaToken(token) == token \notin {"vertex1", "vertex2"}

\* the catalog key that is spelled by a token sequence, if there is one
IsKeyOf(techId, tokens) ==
  \E key \in DOMAIN TECHNIQUES[techId].params : Split(key) = tokens
JoinKey(techId, tokens) ==
  CHOOSE key \in DOMAIN TECHNIQUES[techId].params : Split(key) = tokens

\* fullKey.replace(/_[A-Za-z_]+$/, ''): the match starts at the leftmost
\* underscore after which the key holds letters and underscores only
regexCleanKey(tokens) ==
  LET starts == {j \in 2..Len(tokens) :
                   \A k \in j..Len(tokens) : IsAlphaToken(tokens[k])}
  IN  IF starts = {} THEN tokens
      ELSE SubSeq(tokens, 1, (CHOOSE j \in starts : \A k \in starts : j <= k) - 1)

---------------------------------------------------------------------------
(* validation.js *)

LEVEL == [ERROR |-> "error", WARNING |-> "warning", INFO |-> "info"]

\* an issue object; an absent `param` is "" and an absent `stepIndex` is {}
Issue(level, code, message, param) ==
  [level |-> level, code |-> code, message |-> message, param |-> param,
   stepIndex |-> {}]

\* if (cond) issues.push(issue)
PushIf(cond, issue) == IF cond THEN <<issue>> ELSE <<>>

CvRules(params) ==
  LET vertex1_V      == Get(params, "vertex1_V")
      vertex2_V      == Get(params, "vertex2_V")
      scan_rate_mV_s == Get(params, "scan_rate_mV_s")
      cycles         == Get(params, "cycles")
  IN  PushIf(JsGt(scan_rate_mV_s, Dec(10000, 0)),
        Issue(LEVEL.ERROR, "PV001",
              "Scan rate exceeds instrument limit (10 V/s)", "scan_rate_mV_s"))
   \o PushIf(JsGt(scan_rate_mV_s, Dec(0, 0)) /\ JsLt(scan_rate_mV_s, Dec(0, 1000000)),
        Issue(LEVEL.ERROR, "PV002",
              "Scan rate too slow (<0.1 mV/s)", "scan_rate_mV_s"))
   \o PushIf(JsLt(cycles, Dec(1, 0)),
        Issue(LEVEL.ERROR, "PV003", "At least 1 cycle required", "cycles"))
   \o PushIf(vertex1_V # NULL /\ vertex2_V # NULL
             /\ StrictEqNum(parseFloat(vertex1_V), parseFloat(vertex2_V)),
        Issue(LEVEL.ERROR, "PV004", "Vertex potentials must differ", "vertex1_V"))
   \o PushIf(JsGe(cycles, Dec(1, 0)) /\ JsLt(cycles, Dec(3, 0)),
        Issue(LEVEL.WARNING, "DR011",
              "Consider >=3 cycles for reproducible steady-state response", "cycles"))

\* the eis rules with the PV005 comparison inverted
EisRulesInverted(params) ==
  LET f_start_Hz   == Get(params, "f_start_Hz")
      f_end_Hz     == Get(params, "f_end_Hz")
  IN  PushIf(f_start_Hz # NULL /\ f_end_Hz # NULL
             /\ JsGe(parseFloat(f_start_Hz), parseFloat(f_end_Hz)),
        [level |-> "error", code |-> "PV005",
         message |-> "Start frequency must be greater than end frequency",
         param |-> "f_start_Hz", stepIndex |-> {}])

\* the eis rules with DR005 tested as amplitude_mV > 10 alone
EisRulesUnboundedWarning(params) ==
  LET amplitude_mV == Get(params, "amplitude_mV")
  IN  PushIf(JsLe(amplitude_mV, Dec(0, 0)),
        Issue("error", "PV008", "Amplitude must be positive", "amplitude_mV"))
   \o PushIf(JsGt(amplitude_mV, Dec(100, 0)),
        Issue("error", "PV009", "Amplitude exceeds 100 mV", "amplitude_mV"))
   \o PushIf(JsGt(amplitude_mV, Dec(10, 0)),
        Issue("warning", "DR005",
              "Amplitude >10 mV may introduce nonlinear artifacts", "amplitude_mV"))

EisRules(params) ==
  LET f_start_Hz   == Get(params, "f_start_Hz")
      f_end_Hz     == Get(params, "f_end_Hz")
      amplitude_mV == Get(params, "amplitude_mV")
  IN  PushIf(f_start_Hz # NULL /\ f_end_Hz # NULL
             /\ JsLe(parseFloat(f_start_Hz), parseFloat(f_end_Hz)),
        Issue(LEVEL.ERROR, "PV005",
              "Start frequency must be greater than end frequency", "f_start_Hz"))
   \o PushIf(JsGt(f_start_Hz, Dec(10000000, 0)),
        Issue(LEVEL.ERROR, "PV006",
              "Start frequency exceeds 10 MHz (instrument limit)", "f_start_Hz"))
   \o PushIf(JsLt(f_end_Hz, Dec(0, 10)),
        Issue(LEVEL.ERROR, "PV007",
              "End frequency below 1 uHz (impractical)", "f_end_Hz"))
   \o PushIf(JsLe(amplitude_mV, Dec(0, 0)),
        Issue(LEVEL.ERROR, "PV008", "Amplitude must be positive", "amplitude_mV"))
   \o PushIf(JsGt(amplitude_mV, Dec(100, 0)),
        Issue(LEVEL.ERROR, "PV009",
              "Amplitude exceeds 100 mV", "amplitude_mV"))
   \o PushIf(JsGt(amplitude_mV, Dec(10, 0)) /\ JsLe(amplitude_mV, Dec(100, 0)),
        Issue(LEVEL.WARNING, "DR005",
              "Amplitude >10 mV may introduce nonlinear artifacts", "amplitude_mV"))

OcpRules(params) ==
  LET duration_s == Get(params, "duration_s")
  IN  PushIf(JsLe(duration_s, Dec(0, 0)),
        Issue(LEVEL.ERROR, "PV011", "Duration must be positive", "duration_s"))
   \o PushIf(JsGt(duration_s, Dec(0, 0)) /\ JsLt(duration_s, Dec(30, 0)),
        Issue(LEVEL.WARNING, "DR004",
              "OCP duration <30s may not allow electrode equilibration", "duration_s"))

CaCpRules(technique, params) ==
  LET duration_s  == Get(params, "duration_s")
      potential_V == Get(params, "potential_V")
      current_mA  == Get(params, "current_mA")
  IN  PushIf(JsLe(duration_s, Dec(0, 0)),
        Issue(LEVEL.ERROR, "PV011", "Duration must be positive", "duration_s"))
   \o PushIf(technique = "ca" /\ JsGt(MathAbs(potential_V), Dec(10, 0)),
        Issue(LEVEL.ERROR, "PV010", "Potential outside +-10 V range", "potential_V"))
   \o PushIf(technique = "ca" /\ JsGt(MathAbs(potential_V), Dec(2, 5000000)),
        Issue(LEVEL.WARNING, "DR001",
              "High potential may exceed aqueous solvent stability window", "potential_V"))
   \o PushIf(technique = "cp" /\ JsGt(MathAbs(current_mA), Dec(100, 0)),
        Issue(LEVEL.WARNING, "DR009",
              "High current - verify electrode area", "current_mA"))

\* the lsv rules with PV010 naming end_V first
LsvRulesEndFirst(params) ==
  LET start_V == Get(params, "start_V")
      end_V   == Get(params, "end_V")
  IN  PushIf(JsGt(MathAbs(start_V), Dec(10, 0)) \/ JsGt(MathAbs(end_V), Dec(10, 0)),
        Issue("error", "PV010", "Potential outside +-10 V range",
              IF JsGt(MathAbs(end_V), Dec(10, 0)) THEN "end_V" ELSE "start_V"))

LsvRules(params) ==
  LET start_V        == Get(params, "start_V")
      end_V          == Get(params, "end_V")
      scan_rate_mV_s == Get(params, "scan_rate_mV_s")
  IN  PushIf(JsGt(scan_rate_mV_s, Dec(10000, 0)),
        Issue(LEVEL.ERROR, "PV001", "Scan rate exceeds 10 V/s", "scan_rate_mV_s"))
   \o PushIf(JsGt(scan_rate_mV_s, Dec(0, 0)) /\ JsLt(scan_rate_mV_s, Dec(0, 1000000)),
        Issue(LEVEL.ERROR, "PV002", "Scan rate too slow (<0.1 mV/s)", "scan_rate_mV_s"))
   \o PushIf(JsGt(MathAbs(start_V), Dec(10, 0)) \/ JsGt(MathAbs(end_V), Dec(10, 0)),
        Issue(LEVEL.ERROR, "PV010", "Potential outside +-10 V range",
              IF JsGt(MathAbs(start_V), Dec(10, 0)) THEN "start_V" ELSE "end_V"))

\* the purge rules with the DR007 warning pushed at error level
PurgeRulesErrorLevel(params) ==
  LET duration_min == Get(params, "duration_min")
  IN  PushIf(JsLt(duration_min, Dec(1, 0)),
        Issue(LEVEL.ERROR, "PV011",
              "Purge duration must be at least 1 minute", "duration_min"))
   \o PushIf(JsGe(duration_min, Dec(1, 0)) /\ JsLt(duration_min, Dec(10, 0)),
        Issue(LEVEL.ERROR, "DR007",
              "Purge <10 min may not achieve full gas saturation", "duration_min"))

PurgeRules(params) ==
  LET duration_min == Get(params, "duration_min")
  IN  PushIf(JsLt(duration_min, Dec(1, 0)),
        Issue(LEVEL.ERROR, "PV011",
              "Purge duration must be at least 1 minute", "duration_min"))
   \o PushIf(JsGe(duration_min, Dec(1, 0)) /\ JsLt(duration_min, Dec(10, 0)),
        Issue(LEVEL.WARNING, "DR007",
              "Purge <10 min may not achieve full gas saturation", "duration_min"))

\* the technique-specific blocks of validateStep, in source order
TechniqueRules(step) ==
     (IF step.technique = "cv" THEN CvRules(step.params) ELSE <<>>)
  \o (IF step.technique = "eis" THEN EisRules(step.params) ELSE <<>>)
  \o (IF step.technique = "ocp" THEN OcpRules(step.params) ELSE <<>>)
  \o (IF step.technique = "ca" \/ step.technique = "cp"
      THEN CaCpRules(step.technique, step.params) ELSE <<>>)
  \o (IF step.technique = "lsv" THEN LsvRules(step.params) ELSE <<>>)
  \o (IF step.technique = "purge" THEN PurgeRules(step.params) ELSE <<>>)

\* the body of the generic min/max callback for one [key, value] entry
SweepEntry(tech, key, value) ==
  IF key \notin DOMAIN tech.params THEN <<>>
  ELSE LET paramDef == tech.params[key]
       IN  PushIf(paramDef.hasMin /\ JsLt(value, paramDef.min),
             Issue(LEVEL.ERROR, "PV000", "below minimum", key))
        \o PushIf(paramDef.hasMax /\ JsGt(value, paramDef.max),
             Issue(LEVEL.ERROR, "PV000", "above maximum", key))

\* Object.entries(step.params).forEach(...)
RECURSIVE BoundsSweep(_, _)
BoundsSweep(tech, params) ==
  IF params = <<>> THEN <<>>
  ELSE SweepEntry(tech, Head(params).key, Head(params).value)
       \o BoundsSweep(tech, Tail(params))

\* the generic sweep when tech is an inherited member, which has no
\* params: nothing is read for a step without parameters, and
\* tech.params[key] throws a TypeError for the first parameter otherwise
InheritedSweep(params) ==
  IF params = <<>> THEN <<>>
  ELSE <<Issue("thrown", "TypeError", "Cannot read properties of undefined",
               Head(params).key)>>

\* validateStep that skips the generic sweep once a named rule has fired
validateStepNamedFirst(step) ==
  IF ~Resolves(step.technique)
  THEN <<Issue(LEVEL.ERROR, "PV000", "Unknown technique", "")>>
  ELSE IF ~Known(step.technique) THEN InheritedSweep(step.params)
  ELSE IF TechniqueRules(step) # <<>> THEN TechniqueRules(step)
  ELSE BoundsSweep(TECHNIQUES[step.technique], step.params)

validateStep(step) ==
  IF ~Resolves(step.technique)
  THEN <<Issue(LEVEL.ERROR, "PV000", "Unknown technique", "")>>
  ELSE IF ~Known(step.technique) THEN InheritedSweep(step.params)
  ELSE TechniqueRules(step) \o BoundsSweep(TECHNIQUES[step.technique], step.params)

\* Array.prototype helpers used by validateProcedure
AnyStep(steps_, P(_)) == \E n \in 1..Len(steps_) : P(steps_[n])

\* steps.findIndex(pred): 0-based index of the first match, -1 if none
FindIndex(steps_, P(_)) ==
  IF AnyStep(steps_, P)
  THEN (CHOOSE n \in 1..Len(steps_) :
          P(steps_[n]) /\ \A k \in 1..(n - 1) : ~P(steps_[k])) - 1
  ELSE 0 - 1

\* slice(0, end + 1): the step at `end` itself is included
Slice0Inclusive(steps_, end) ==
  SubSeq(steps_, 1, IF end + 1 > Len(steps_) THEN Len(steps_)
                    ELSE IF end + 1 < 0 THEN 0 ELSE end + 1)

\* steps.slice(0, end): a negative end counts from the end of the array
Slice0(steps_, end) ==
  LET e == IF end < 0 THEN (IF Len(steps_) + end < 0 THEN 0 ELSE Len(steps_) + end)
           ELSE (IF end > Len(steps_) THEN Len(steps_) ELSE end)
  IN  SubSeq(steps_, 1, e)

measurementTechs  == {"lsv", "cv", "eis"}
conditioningTechs == {"cv", "purge", "ocp"}

IsMeasurement(s)  == s.technique \in measurementTechs
IsConditioning(s) == s.technique \in conditioningTechs
IsLsv(s)          == s.technique = "lsv"
IsPurge(s)        == s.technique = "purge"
IsEis(s)          == s.technique = "eis"

\* s.params.ir_compensation tested for truthiness instead of === true
HasIrCompTruthy(s) ==
  LET v == Get(s.params, "ir_compensation")
  IN  CASE v.k = "bool" -> v = Bool(TRUE)
        [] v.k = "num"  -> ~(v.w = 0 /\ v.m = 0)
        [] v.k = "str"  -> v.s # ""
        [] OTHER        -> FALSE

HasIrComp(s)      == Get(s.params, "ir_compensation") = Bool(TRUE)

\* validateProcedure that looks for a purge step only before the first lsv
validateProcedurePurgeBeforeLsv(steps_, metadata_) ==
  LET firstMeasurementIndex == FindIndex(steps_, IsMeasurement)
      hasConditioningBefore ==
        AnyStep(Slice0(steps_, firstMeasurementIndex), IsConditioning)
      hasLSV    == AnyStep(steps_, IsLsv)
      hasPurge  == AnyStep(Slice0(steps_, FindIndex(steps_, IsLsv)), IsPurge)
      hasIrComp == AnyStep(steps_, HasIrComp)
      hasEIS    == AnyStep(steps_, IsEis)
  IN  PushIf(firstMeasurementIndex > 0 /\ ~hasConditioningBefore,
        [level |-> LEVEL.WARNING, code |-> "DR006",
         message |-> "Consider adding conditioning before first measurement",
         param |-> "", stepIndex |-> {firstMeasurementIndex}])
   \o PushIf(hasLSV /\ ~hasPurge,
        Issue(LEVEL.WARNING, "DR007",
              "Consider adding gas purge before LSV for defined atmosphere", ""))
   \o PushIf(hasIrComp /\ ~hasEIS,
        Issue(LEVEL.WARNING, "DR008",
              "iR compensation enabled but no EIS measurement to determine Ru", ""))

\* validateProcedure that pushes DR007 at error level
validateProcedureErrorLevel(steps_, metadata_) ==
  LET firstMeasurementIndex == FindIndex(steps_, IsMeasurement)
      hasConditioningBefore ==
        AnyStep(Slice0(steps_, firstMeasurementIndex), IsConditioning)
  IN  PushIf(firstMeasurementIndex > 0 /\ ~hasConditioningBefore,
        [level |-> "warning", code |-> "DR006",
         message |-> "Consider adding conditioning before first measurement",
         param |-> "", stepIndex |-> {firstMeasurementIndex}])
   \o PushIf(AnyStep(steps_, IsLsv) /\ ~AnyStep(steps_, IsPurge),
        Issue("error", "DR007",
              "Consider adding gas purge before LSV for defined atmosphere", ""))
   \o PushIf(AnyStep(steps_, HasIrComp) /\ ~AnyStep(steps_, IsEis),
        Issue("warning", "DR008",
              "iR compensation enabled but no EIS measurement to determine Ru", ""))

validateProcedure(steps_, metadata_) ==
  LET firstMeasurementIndex == FindIndex(steps_, IsMeasurement)
      hasConditioningBefore ==
        AnyStep(Slice0(steps_, firstMeasurementIndex), IsConditioning)
      hasLSV    == AnyStep(steps_, IsLsv)
      hasPurge  == AnyStep(steps_, IsPurge)
      hasIrComp == AnyStep(steps_, HasIrComp)
      hasEIS    == AnyStep(steps_, IsEis)
  IN  PushIf(firstMeasurementIndex > 0 /\ ~hasConditioningBefore,
        [level |-> LEVEL.WARNING, code |-> "DR006",
         message |-> "Consider adding conditioning before first measurement",
         param |-> "", stepIndex |-> {firstMeasurementIndex}])
   \o PushIf(hasLSV /\ ~hasPurge,
        Issue(LEVEL.WARNING, "DR007",
              "Consider adding gas purge before LSV for defined atmosphere", ""))
   \o PushIf(hasIrComp /\ ~hasEIS,
        Issue(LEVEL.WARNING, "DR008",
              "iR compensation enabled but no EIS measurement to determine Ru", ""))

\* issues.filter(i => i.level === level)
FilterLevel(issues_, level) ==
  SelectSeq(issues_, LAMBDA i : i.level = level)

\* summarizeIssues whose infos take every issue that is not an error
summarizeIssuesInfosElse(issues_) ==
  [errors   |-> FilterLevel(issues_, LEVEL.ERROR),
   warnings |-> FilterLevel(issues_, LEVEL.WARNING),
   infos    |-> SelectSeq(issues_, LAMBDA i : i.level # LEVEL.ERROR)]

summarizeIssues(issues_) ==
  [errors   |-> FilterLevel(issues_, LEVEL.ERROR),
   warnings |-> FilterLevel(issues_, LEVEL.WARNING),
   infos    |-> FilterLevel(issues_, LEVEL.INFO)]

\* steps.flatMap(validateStep)
RECURSIVE FlatMapValidateStep(_)
FlatMapValidateStep(steps_) ==
  IF steps_ = <<>> THEN <<>>
  ELSE validateStep(Head(steps_)) \o FlatMapValidateStep(Tail(steps_))

\* isValid that forgets to spread the step issues into allIssues
isValidProcedureOnly(steps_, metadata_) ==
  LET allIssues == validateProcedure(steps_, metadata_)
  IN  ~(\E n \in 1..Len(allIssues) : allIssues[n].level = LEVEL.ERROR)

isValid(steps_, metadata_) ==
  LET stepIssues_ == FlatMapValidateStep(steps_)
      procIssues_ == validateProcedure(steps_, metadata_)
      allIssues   == stepIssues_ \o procIssues_
  IN  ~(\E n \in 1..Len(allIssues) : allIssues[n].level = LEVEL.ERROR)
---------------------------------------------------------------------------
(* Inputs: the values a parameter is set to *)

MaxSize == 3

\* one unit in the last place above / below a number
Succ(x) == IF x.m = Scale - 1 THEN Val("num", x.w + 1, 0, "")
           ELSE Val("num", x.w, x.m + 1, "")
Pred(x) == IF x.m = 0 THEN Val("num", x.w - 1, Scale - 1, "")
           ELSE Val("num", x.w, x.m - 1, "")

\* values on both sides of the thresholds the technique rules compare with
RulePoints(technique, key) ==
  CASE technique \in {"cv", "lsv"} /\ key = "scan_rate_mV_s" ->
         {Dec(15000, 0), Dec(0, 500000), Dec(0, 0)}
    [] technique = "cv" /\ key = "cycles" -> {Dec(0, 0), Dec(2, 0)}
    [] technique = "cv" /\ key = "vertex1_V" -> {Dec(1, 2000000), Dec(0, 5000000)}
    [] technique = "cv" /\ key = "vertex2_V" -> {Dec(0, 5000000)}
    [] technique = "lsv" /\ key = "start_V" ->
         {Dec(12, 0), Neg(Dec(12, 0)), Dec(10, 0), Succ(Dec(10, 0)),
          Neg(Dec(10, 0))}
    [] technique = "lsv" /\ key = "end_V" -> {Dec(12, 0), Dec(10, 0)}
    [] technique = "eis" /\ key = "f_start_Hz" -> {Dec(0, 1000000), Dec(20000000, 0)}
    [] technique = "eis" /\ key = "f_end_Hz" ->
         {Dec(100000, 0), Dec(100, 0), Dec(0, 1)}
    [] technique = "eis" /\ key = "amplitude_mV" ->
         {Dec(0, 0), Neg(Dec(5, 0)), Dec(5, 0), Succ(Dec(10, 0)), Dec(20, 0),
          Dec(150, 0)}
    [] technique = "ocp" /\ key = "duration_s" ->
         {Dec(0, 0), Neg(Dec(1, 0)), Dec(10, 0), Dec(30, 0), Dec(0, 100000)}
    [] technique = "ca" /\ key = "potential_V" ->
         {Dec(15, 0), Neg(Dec(15, 0)), Dec(10, 0), Dec(2, 5000000)}
    [] technique \in {"ca", "cp"} /\ key = "duration_s" -> {Dec(0, 0)}
    [] technique = "cp" /\ key = "current_mA" ->
         {Dec(200, 0), Neg(Dec(200, 0)), Dec(100, 0)}
    [] technique = "purge" /\ key = "duration_min" ->
         {Dec(0, 5000000), Dec(5, 0), Dec(10, 0)}
    [] OTHER -> {}

\* keys a step may carry although its technique does not declare them
ExtraKeys == {"ir_compensation", "duration_s"}

ExtraValues(key) ==
  IF key = "ir_compensation" THEN {Bool(TRUE), Str("true")}
  ELSE {Neg(Dec(1, 0)), NULL, Str("15")}

\* the values tried for parameter `key` of a step of `technique`
Pool(technique, key) ==
  IF ~Known(technique) \/ key \notin DOMAIN TECHNIQUES[technique].params
  THEN ExtraValues(key)
  ELSE LET paramDef == TECHNIQUES[technique].params[key]
       IN  CASE paramDef.type \in {"number", "integer"} ->
                  {NULL, paramDef.min, paramDef.max,
                   Pred(paramDef.min), Succ(paramDef.max)}
                  \cup RulePoints(technique, key)
             [] paramDef.type = "boolean" -> {Bool(TRUE), Bool(FALSE)}
             [] OTHER -> {NULL, Str("0.5")}

\* the keys assigned on a step of `technique` (a hand-written step with an
\* inherited technique name is explored without parameters)
KeysOf(technique) ==
  IF technique \in ObjectPrototypeKeys THEN {}
  ELSE (IF Known(technique) THEN DOMAIN TECHNIQUES[technique].params ELSE {})
       \cup ExtraKeys

\* the values tried for a parameter of a step that is one of several:
\* one value above the declared maximum, and a set flag
ShortPool(technique, key) ==
  IF ~Known(technique) \/ key \notin DOMAIN TECHNIQUES[technique].params
  THEN ExtraValues(key) \cap {Bool(TRUE)}
  ELSE LET paramDef == TECHNIQUES[technique].params[key]
       IN  CASE paramDef.type \in {"number", "integer"} -> {Succ(paramDef.max)}
             [] paramDef.type = "boolean" -> {Bool(TRUE)}
             [] OTHER -> {}

\* the entries of a step that differ from the defaults of its technique
EditedEntries(step) ==
  {n \in 1..Len(step.params) :
     \/ ~Known(step.technique)
     \/ step.params[n].key \notin DOMAIN TECHNIQUES[step.technique].params
     \/ step.params[n].value #
          TECHNIQUES[step.technique].params[step.params[n].key].default}

RECURSIVE SumEdited(_)
SumEdited(steps_) ==
  IF steps_ = <<>> THEN 0
  ELSE Cardinality(EditedEntries(Head(steps_))) + SumEdited(Tail(steps_))

---------------------------------------------------------------------------
(* The library as its callers drive it: build steps, assign parameters,   *)
(* and validate the resulting list.                                        *)

defaultMetadata ==
  [name |-> "ORR Catalyst Characterization", author |-> "", description |-> "",
   electrodes |-> 3, reference |-> "RHE", electrolyte |-> "0.1 M HClO4",
   temperature |-> 25, working_electrode |-> "", counter_electrode |-> ""]

\* size of an input: its steps, the parameters that differ from the
\* defaults of their technique, and the metadata fields that differ from
\* the default metadata
Size(steps_, metadata_) ==
  Len(steps_) + SumEdited(steps_)
  + Cardinality({f \in DOMAIN metadata_ : metadata_[f] # defaultMetadata[f]})

\* the inputs explored are at most MaxSize large; a single step takes
\* every value of Pool, the steps of a longer list those of ShortPool
CanGrow == Size(steps, metadata) < MaxSize

CanAppend ==
  \A n \in 1..Len(steps) : \A e \in EditedEntries(steps[n]) :
    steps[n].params[e].value
      \in ShortPool(steps[n].technique, steps[n].params[e].key)

ValuesFor(i, key) ==
  IF Len(steps) = 1 THEN Pool(steps[i].technique, key)
  ELSE ShortPool(steps[i].technique, key)

\* the validator outputs for a step list
Validated(steps_, metadata_) ==
  /\ stepIssues' = [n \in 1..Len(steps_) |-> validateStep(steps_[n])]
  /\ procIssues' = validateProcedure(steps_, metadata_)
  /\ valid' = isValid(steps_, metadata_)

\* nothing summarized, generated, imported or logged yet
NoSummary == [errors |-> <<>>, warnings |-> <<>>, infos |-> <<>>]
NoFile    == [ext |-> "none", read |-> FALSE, data |-> <<>>]

InitCallVars ==
  /\ issues = <<>>
  /\ summary = NoSummary
  /\ called = {}

\* nothing kept under STORAGE_KEY
NoItem == [kind |-> "missing", metadata |-> <<>>, steps |-> <<>>]

\* the component is mounted, no timeout is pending and the store is empty
InitStoreVars ==
  /\ store = NoItem
  /\ timers = {}
  /\ timerRef = 0
  /\ mounted = TRUE

InitEditorVars ==
  /\ clock = 0
  /\ file = NoFile
  /\ origin = <<>>
  /\ retired = {}
  /\ logged = <<>>
  /\ overwritten = {}
  /\ InitStoreVars

Init ==
  /\ steps = <<>>
  /\ metadata = defaultMetadata
  /\ nextId = 1
  /\ thrown = <<>>
  /\ stepIssues = <<>>
  /\ procIssues = <<>>
  /\ valid = TRUE
  /\ InitCallVars
  /\ InitEditorVars

\* const step = createDefaultStep(techniqueId), appended to the list
CreateStep(techniqueId) ==
  /\ ~createDefaultStepThrows(techniqueId)
  /\ steps' = Append(steps, createDefaultStep(techniqueId,
                                               StepId(clock, nextId), nextId))
  /\ nextId' = nextId + 1
  /\ thrown' = <<>>
  /\ Validated(steps', metadata)
  /\ UNCHANGED <<metadata, callVars, editorVars>>

\* createDefaultStep(techniqueId) with an id that does not resolve
CreateStepFails(techniqueId) ==
  /\ createDefaultStepThrows(techniqueId)
  /\ thrown' = <<createDefaultStepError(techniqueId), techniqueId>>
  /\ UNCHANGED <<steps, metadata, nextId, stepIssues, procIssues, valid>>
  /\ UNCHANGED <<callVars, editorVars>>

\* const step = { technique: 'nonexistent', params: {} }
CreateRawStep(technique) ==
  /\ steps' = Append(steps, [id |-> <<>>, technique |-> technique,
                             params |-> <<>>, tag |-> "", obj |-> nextId])
  /\ nextId' = nextId + 1
  /\ thrown' = <<>>
  /\ Validated(steps', metadata)
  /\ UNCHANGED <<metadata, callVars, editorVars>>

\* step.params[key] = value: a write to the params object of steps[i],
\* seen through every step that holds the same object
WriteParam(steps_, i, key, value) ==
  [n \in 1..Len(steps_) |->
     IF steps_[n].obj = steps_[i].obj
     THEN [steps_[n] EXCEPT !.params = Put(@, key, value)]
     ELSE steps_[n]]

\* the value createDefaultStep gave the parameter (undefined for a key the
\* technique does not declare)
DefaultOf(technique, key) ==
  IF Known(technique) /\ key \in DOMAIN TECHNIQUES[technique].params
  THEN TECHNIQUES[technique].params[key].default
  ELSE UNDEFINED

\* step.params[key] = value, for a parameter not assigned before
SetParam(i, key, value) ==
  /\ Get(steps[i].params, key) = DefaultOf(steps[i].technique, key)
  /\ value # DefaultOf(steps[i].technique, key)
  /\ steps' = WriteParam(steps, i, key, value)
  /\ thrown' = <<>>
  /\ Validated(steps', metadata)
  /\ UNCHANGED <<metadata, nextId, callVars, editorVars>>

\* the caller passes a metadata object with another electrode count
SetMetadata(electrodes) ==
  /\ metadata.electrodes # electrodes
  /\ metadata' = [metadata EXCEPT !.electrodes = electrodes]
  /\ thrown' = <<>>
  /\ Validated(steps, metadata')
  /\ UNCHANGED <<steps, nextId, callVars, editorVars>>

\* technique ids of the steps written out by hand: one that is no property
\* of TECHNIQUES at all, and an inherited one
RawTechs == {"nonexistent", "constructor"}

Next ==
  \/ CanGrow /\ CanAppend /\ \E t \in TechIds \cup {"fake"} : CreateStep(t)
  \/ CanGrow /\ CanAppend /\ \E t \in RawTechs : CreateRawStep(t)
  \/ CanGrow /\ \E i \in 1..Len(steps) :
       \E key \in KeysOf(steps[i].technique) :
         \E value \in ValuesFor(i, key) : SetParam(i, key, value)
  \/ CanGrow /\ SetMetadata(2)
  \/ \E t \in TechIds \cup {"fake", "constructor"} : CreateStepFails(t)

Spec == Init /\ [][Next]_vars
---------------------------------------------------------------------------
(* The four validator functions called, in any order and any number of   *)
(* times, on one input: what each call returns and what it leaves in the  *)
(* objects it was handed.                                                  *)

\* validateStep reads step.technique and step.params (destructuring,
\* Object.entries) and pushes only to its local issues array
ArgAfterValidateStep(step) == step

\* validateProcedure with steps.splice(0, firstMeasurementIndex) in place
\* of slice: the steps before the first measurement are cut out of the list
ArgsAfterValidateProcedureSplice(steps_, metadata_) ==
  LET firstMeasurementIndex == FindIndex(steps_, IsMeasurement)
      cut == IF firstMeasurementIndex < 0
             THEN (IF Len(steps_) = 0 THEN 0 ELSE Len(steps_) - 1)
             ELSE firstMeasurementIndex
  IN  <<SubSeq(steps_, cut + 1, Len(steps_)), metadata_>>

\* validateProcedure calls findIndex, slice and some on steps, none of
\* which writes to the array, and never reads _metadata
ArgsAfterValidateProcedure(steps_, metadata_) == <<steps_, metadata_>>

\* summarizeIssues calls filter three times; filter builds new arrays
ArgAfterSummarizeIssues(issues_) == issues_

\* isValid passes its arguments to flatMap(validateStep) and then to
\* validateProcedure
ArgsAfterIsValid(steps_, metadata_) ==
  ArgsAfterValidateProcedure(
    [n \in 1..Len(steps_) |-> ArgAfterValidateStep(steps_[n])], metadata_)

\* steps built with createDefaultStep, as the tests build their inputs
CallTechs == {"cv", "lsv", "eis", "purge", "ocp"}

DefaultList(techs) ==
  [n \in 1..Len(techs) |-> createDefaultStep(techs[n], StepId(0, n), n)]

\* lists of up to MaxCallSteps default steps, and the single steps whose
\* first parameter is null or a value above 120
MaxCallSteps == 2

CallInputs ==
  {DefaultList(techs) :
     techs \in UNION {[1..n -> CallTechs] : n \in 0..MaxCallSteps}}
  \cup {<<[createDefaultStep(t, StepId(0, 1), 1) EXCEPT
             !.params = Put(@, TECHNIQUES[t].keys[1], v)]>> :
          t \in CallTechs,
          v \in {NULL, Succ(TECHNIQUES["purge"].params["duration_min"].max)}}

\* issue objects as the tests write them, and one with a level that is
\* none of LEVEL
SampleIssues ==
  {Issue(LEVEL.ERROR, "PV001", "e1", ""),
   Issue(LEVEL.WARNING, "DR001", "w1", ""),
   Issue(LEVEL.WARNING, "DR002", "w2", ""),
   Issue(LEVEL.INFO, "I001", "i1", ""),
   Issue("debug", "X001", "x1", "")}

MaxIssues == 3

IssueInputs == UNION {[1..n -> SampleIssues] : n \in 0..MaxIssues}

\* the input under test is a step list with a metadata object, or an
\* issue list
InitCalls ==
  /\ \/ steps \in CallInputs /\ issues = <<>>
     \/ steps = <<>> /\ issues \in IssueInputs
  /\ metadata \in {defaultMetadata, [defaultMetadata EXCEPT !.electrodes = 2]}
  /\ nextId = MaxCallSteps + 1
  /\ thrown = <<>>
  /\ stepIssues = [n \in 1..Len(steps) |-> <<>>]
  /\ procIssues = <<>>
  /\ valid = TRUE
  /\ summary = NoSummary
  /\ called = {}
  /\ InitEditorVars

\* const issues = validateStep(steps[i])
CallValidateStep(i) ==
  /\ stepIssues' = [stepIssues EXCEPT ![i] = validateStep(steps[i])]
  /\ steps' = [steps EXCEPT ![i] = ArgAfterValidateStep(steps[i])]
  /\ called' = called \cup {<<"validateStep", i>>}
  /\ UNCHANGED <<metadata, nextId, thrown, procIssues, valid, issues, summary>>
  /\ UNCHANGED editorVars

\* const issues = validateProcedure(steps, metadata)
CallValidateProcedure ==
  /\ procIssues' = validateProcedure(steps, metadata)
  /\ steps' = ArgsAfterValidateProcedure(steps, metadata)[1]
  /\ metadata' = ArgsAfterValidateProcedure(steps, metadata)[2]
  /\ called' = called \cup {<<"validateProcedure", 0>>}
  /\ UNCHANGED <<nextId, thrown, stepIssues, valid, issues, summary>>
  /\ UNCHANGED editorVars

\* isValid(steps, metadata)
CallIsValid ==
  /\ valid' = isValid(steps, metadata)
  /\ steps' = ArgsAfterIsValid(steps, metadata)[1]
  /\ metadata' = ArgsAfterIsValid(steps, metadata)[2]
  /\ called' = called \cup {<<"isValid", 0>>}
  /\ UNCHANGED <<nextId, thrown, stepIssues, procIssues, issues, summary>>
  /\ UNCHANGED editorVars

\* const { errors, warnings, infos } = summarizeIssues(issues)
CallSummarizeIssues ==
  /\ summary' = summarizeIssues(issues)
  /\ issues' = ArgAfterSummarizeIssues(issues)
  /\ called' = called \cup {<<"summarizeIssues", 0>>}
  /\ UNCHANGED <<steps, metadata, nextId, thrown, stepIssues, procIssues, valid>>
  /\ UNCHANGED editorVars

NextCalls ==
  \/ \E i \in 1..Len(steps) : CallValidateStep(i)
  \/ CallValidateProcedure
  \/ CallIsValid
  \/ CallSummarizeIssues

SpecCalls == InitCalls /\ [][NextCalls]_vars
---------------------------------------------------------------------------
(* generators.js, as the specification and generators.test.js describe it *)

\* the tokens that spell a unit at the end of a parameter key
UnitTokens == {"mV", "s", "V", "Hz", "min", "mA", "ms", "mL", "C"}

\* canonical (short) key: the trailing run of unit tokens is dropped;
\* boolean and select parameters keep their key
cleanParamKey(techId, key) ==
  LET tokens == Split(key)
      kept   == {j \in 1..Len(tokens) :
                   \A k \in (j + 1)..Len(tokens) : tokens[k] \in UnitTokens}
  IN  IF TECHNIQUES[techId].params[key].type \in {"boolean", "select"}
      THEN tokens
      ELSE SubSeq(tokens, 1, CHOOSE j \in kept : \A k \in kept : j <= k)

\* the metadata and system blocks, as they read after parsing
generatedMetadata(metadata_) ==
  <<[name        |-> <<metadata_.name>>,
     author      |-> <<metadata_.author>>,
     description |-> <<metadata_.description>>]>>

generatedSystem(metadata_) ==
  <<[electrodes        |-> <<metadata_.electrodes>>,
     reference         |-> <<metadata_.reference>>,
     electrolyte       |-> <<metadata_.electrolyte>>,
     temperature       |-> <<metadata_.temperature>>,
     temperature_C     |-> <<>>,
     working_electrode |-> <<metadata_.working_electrode>>,
     counter_electrode |-> <<metadata_.counter_electrode>>]>>

\* a number, string or boolean written as YAML text and parsed again; NaN
\* is written as the text NaN, which parses as a string
yamlValue(v) == IF v.k = "nan" THEN Str("NaN") ELSE v

\* one entry of the procedure block: the technique id over the canonical
\* key: value pairs of the parameters that are not null, and the tag
yamlEntry(step) ==
  LET written == SelectSeq(step.params,
                   LAMBDA e : e.value.k \notin {"null", "undefined"})
      pairs   == [n \in 1..Len(written) |->
                    [key   |-> cleanParamKey(step.technique, written[n].key),
                     value |-> yamlValue(written[n].value)]]
      tag     == IF step.tag = "" THEN <<>>
                 ELSE <<[key |-> <<"tag">>, value |-> Str(step.tag)]>>
  IN  [kind  |-> "object",
       items |-> <<[key |-> step.technique, body |-> pairs \o tag]>>,
       tag   |-> UNDEFINED]

\* generateYAML(metadata, steps), parsed by yaml.load
generateYAML(metadata_, steps_) ==
  [shape    |-> "object",
   wrapped  |-> FALSE,
   metadata |-> generatedMetadata(metadata_),
   system   |-> generatedSystem(metadata_),
   steps    |-> <<[n \in 1..Len(steps_) |-> yamlEntry(steps_[n])]>>,
   ir       |-> <<>>]

\* JSON.parse(JSON.stringify(v)) of a property value: NaN reads back as
\* null (and a property that is undefined is not written)
jsonValue(v) == IF v.k = "nan" THEN NULL ELSE v

\* one element of _procedure.steps: technique, the full params mapping, tag
ecdlStep(step) ==
  LET written == SelectSeq(step.params, LAMBDA e : e.value.k # "undefined")
  IN  [kind      |-> "object",
       technique |-> Str(step.technique),
       params    |-> <<[n \in 1..Len(written) |->
                          [key   |-> Split(written[n].key),
                           value |-> jsonValue(written[n].value)]]>>,
       top       |-> <<>>,
       tag       |-> Str(step.tag)]

\* generateECDL(metadata, steps), parsed by JSON.parse: its _procedure
generateECDL(metadata_, steps_) ==
  [shape    |-> "object",
   wrapped  |-> TRUE,
   metadata |-> generatedMetadata(metadata_),
   system   |-> generatedSystem(metadata_),
   steps    |-> <<[n \in 1..Len(steps_) |-> ecdlStep(steps_[n])]>>,
   ir       |-> <<>>]

\* an IR number is w + m / Scale + x / (Scale * Milli), so that a division
\* by 1000 is exact
Milli == 10 ^ 3

IrNum(w, m, x) == [k |-> "num", w |-> w, m |-> m, x |-> x, s |-> ""]

\* value / 1000
DivideBy1000(v) ==
  IrNum(v.w \div Milli,
        (v.w % Milli) * (Scale \div Milli) + v.m \div Milli,
        v.m % Milli)

\* value * 60
Times60(v) == IrNum(v.w * 60 + (v.m * 60) \div Scale, (v.m * 60) % Scale, 0)

\* value, unchanged
Unscaled(v) == IrNum(v.w, v.m, 0)

EndsWith(tokens, suffix) ==
  /\ Len(tokens) > Len(suffix)
  /\ SubSeq(tokens, Len(tokens) - Len(suffix) + 1, Len(tokens)) = suffix

ReplaceSuffix(tokens, suffix, by) ==
  SubSeq(tokens, 1, Len(tokens) - Len(suffix)) \o by

\* irEntry without the conversion of minutes
irEntryKeepsMinutes(e) ==
  LET tokens == Split(e.key)
      num    == e.value.k = "num"
      same   == IF num THEN Unscaled(e.value) ELSE e.value
      milli  == IF num THEN DivideBy1000(e.value) ELSE e.value
  IN  CASE EndsWith(tokens, <<"mV", "s">>) ->
             [key |-> ReplaceSuffix(tokens, <<"mV", "s">>, <<"V", "s">>),
              value |-> milli]
        [] EndsWith(tokens, <<"mV">>) ->
             [key |-> ReplaceSuffix(tokens, <<"mV">>, <<"V">>), value |-> milli]
        [] EndsWith(tokens, <<"mA">>) ->
             [key |-> ReplaceSuffix(tokens, <<"mA">>, <<"A">>), value |-> milli]
        [] OTHER -> [key |-> tokens, value |-> same]

\* a parameter in SI units: mV/s -> V/s, mV -> V, min -> s, mA -> A, under
\* the key that names the new unit; any other parameter as it is
irEntry(e) ==
  LET tokens == Split(e.key)
      num    == e.value.k = "num"
      same   == IF num THEN Unscaled(e.value) ELSE e.value
      milli  == IF num THEN DivideBy1000(e.value) ELSE e.value
      times60 == IF num THEN Times60(e.value) ELSE e.value
  IN  CASE EndsWith(tokens, <<"mV", "s">>) ->
             [key |-> ReplaceSuffix(tokens, <<"mV", "s">>, <<"V", "s">>),
              value |-> milli]
        [] EndsWith(tokens, <<"mV">>) ->
             [key |-> ReplaceSuffix(tokens, <<"mV">>, <<"V">>), value |-> milli]
        [] EndsWith(tokens, <<"min">>) ->
             [key |-> ReplaceSuffix(tokens, <<"min">>, <<"s">>), value |-> times60]
        [] EndsWith(tokens, <<"mA">>) ->
             [key |-> ReplaceSuffix(tokens, <<"mA">>, <<"A">>), value |-> milli]
        [] OTHER -> [key |-> tokens, value |-> same]

\* one step of the IR: the technique and the converted parameters
irStep(step) ==
  [technique |-> step.technique,
   params    |-> [n \in 1..Len(step.params) |-> irEntry(step.params[n])],
   tag       |-> step.tag]

\* generateIR(metadata, steps), parsed by JSON.parse: procedure[0].steps
generateIR(metadata_, steps_) ==
  [shape    |-> "object",
   wrapped  |-> FALSE,
   metadata |-> generatedMetadata(metadata_),
   system   |-> generatedSystem(metadata_),
   steps    |-> <<>>,
   ir       |-> [n \in 1..Len(steps_) |-> irStep(steps_[n])]]
---------------------------------------------------------------------------
(* App.jsx: importing a file *)

\* a value in a boolean context
Truthy(v) ==
  CASE v.k = "num"  -> ~(v.w = 0 /\ v.m = 0)
    [] v.k = "str"  -> v.s # ""
    [] v.k = "bool" -> v.w = 1
    [] OTHER        -> FALSE

\* isNaN(v)
IsNaN(v) == ToNumber(v).k = "nan"

\* String(v) for the values a tag takes in the files explored
StringOf(v) ==
  CASE v.k = "str"  -> v.s
    [] v.k = "bool" -> IF v.w = 1 THEN "true" ELSE "false"
    [] v.k = "null" -> "null"
    [] v.k = "num" /\ v.m = 0 -> ToString(v.w)
    [] OTHER        -> "undefined"

\* An optional value (a property that may be absent, null or undefined) is
\* <<>> or <<value>>.
\* m || prev, with `falsy` the falsy value of the property's type
OrElse(m, prev, falsy) == IF m = <<>> \/ m[1] = falsy THEN prev ELSE m[1]
\* m ?? prev
Coalesce(m, prev) == IF m = <<>> THEN prev ELSE m[1]
\* m?.f
Field(m, f) == IF m = <<>> THEN <<>> ELSE m[1][f]

\* the assignments of the paramKeyMap loop, in order, as
\* <<assigned key, fullKey>>: paramKeyMap[cleanKey] = fullKey and then
\* paramKeyMap[fullKey] = fullKey, for every key of the technique
paramKeyMapWrites(techId) ==
  LET keys == TECHNIQUES[techId].keys
  IN  [n \in 1..(2 * Len(keys)) |->
         LET fullKey == keys[(n + 1) \div 2]
         IN  IF n % 2 = 1 THEN <<regexCleanKey(Split(fullKey)), fullKey>>
             ELSE <<Split(fullKey), fullKey>>]

\* the assignments to paramKeyMap[key]
KeyWrites(writes, key) == {n \in DOMAIN writes : writes[n][1] = key}

\* (paramKeyMap[key] || key) in tech.params
HasFullKey(techId, key) ==
  \/ KeyWrites(paramKeyMapWrites(techId), key) # {}
  \/ IsKeyOf(techId, key)

\* paramKeyMap[key] || key for a paramKeyMap made by `writes`: the last
\* assignment to paramKeyMap[key] stands
MappedKey(writes, techId, key) ==
  IF KeyWrites(writes, key) = {} THEN JoinKey(techId, key)
  ELSE writes[CHOOSE n \in KeyWrites(writes, key) :
                \A k \in KeyWrites(writes, key) : k <= n][2]

\* paramKeyMap[key] || key
FullKey(techId, key) == MappedKey(paramKeyMapWrites(techId), techId, key)

\* Object.entries(params).forEach(...) of reconstructSteps: a value that is
\* neither null nor undefined is assigned under the mapped key
RECURSIVE reconstructParams(_, _, _)
reconstructParams(params, techId, entries) ==
  IF entries = <<>> THEN params
  ELSE LET e == Head(entries)
           assigned ==
             IF HasFullKey(techId, e.key) /\ e.value # NULL /\ e.value # UNDEFINED
             THEN Put(params, FullKey(techId, e.key), e.value)
             ELSE params
       IN  reconstructParams(assigned, techId, Tail(entries))

\* An element of a parsed steps array is
\*   [kind, technique, params, top, tag]
\* kind: "object", "null" or "scalar"; technique and tag: the values of
\* these properties (UNDEFINED when absent); params: the optional
\* raw.params mapping; top: the parameter-like properties written on the
\* element itself.  A mapping is the sequence of its [key, value] entries
\* with the key split at its underscores.

\* raw.technique of a null element throws a TypeError; so does
\* createDefaultStep for an inherited name, at Object.entries(tech.params)
rawThrows(raw) ==
  \/ raw.kind = "null"
  \/ /\ raw.kind = "object"
     /\ raw.technique.k = "str"
     /\ raw.technique.s \in ObjectPrototypeKeys

\* TECHNIQUES[raw.technique] is a technique
rawResolves(raw) ==
  /\ raw.kind = "object"
  /\ raw.technique.k = "str"
  /\ raw.technique.s \in TechIds

\* if (tag) step.tag = String(tag)
WithTag(step, tag) ==
  IF Truthy(tag) THEN [step EXCEPT !.tag = StringOf(tag)] ELSE step

\* raw.params || raw
RawParams(raw) == IF raw.params # <<>> THEN raw.params[1] ELSE raw.top

\* the callback of rawSteps.map for an element that resolves
reconstructStep(raw, id, fresh) ==
  WithTag([createDefaultStep(raw.technique.s, id, fresh) EXCEPT
             !.params = reconstructParams(@, raw.technique.s, RawParams(raw))],
          raw.tag)

\* rawSteps.map(...).filter(Boolean), from element n on
RECURSIVE reconstructFrom(_, _, _, _)
reconstructFrom(rawSteps, n, ids, fresh) ==
  IF n > Len(rawSteps) THEN <<>>
  ELSE (IF rawResolves(rawSteps[n])
        THEN <<reconstructStep(rawSteps[n], ids[n], fresh + n - 1)>>
        ELSE <<>>)
       \o reconstructFrom(rawSteps, n + 1, ids, fresh)

\* reconstructSteps(rawSteps): whether it throws, and what it returns
reconstructSteps(rawSteps, ids, fresh) ==
  [threw |-> \E n \in 1..Len(rawSteps) : rawThrows(rawSteps[n]),
   steps |-> reconstructFrom(rawSteps, 1, ids, fresh)]

\* An element of procedure[0].steps of a parsed YAML file is
\*   [kind, items, tag]
\* items: its properties other than tag, in order, as [key, body] with
\* body the nested mapping (empty for a null body).

\* Object.keys(entry).find(k => k !== 'tag' && TECHNIQUES[k])
yamlTechIndex(entry) ==
  IF entry.kind # "object" \/ \A n \in 1..Len(entry.items) :
                                ~Resolves(entry.items[n].key)
  THEN 0
  ELSE CHOOSE n \in 1..Len(entry.items) :
         /\ Resolves(entry.items[n].key)
         /\ \A k \in 1..(n - 1) : ~Resolves(entry.items[k].key)

\* Object.keys(null) throws a TypeError; createDefaultStep throws one for
\* an inherited name
yamlThrows(entry) ==
  \/ entry.kind = "null"
  \/ \E n \in {yamlTechIndex(entry)} :
       n > 0 /\ entry.items[n].key \in ObjectPrototypeKeys

yamlResolves(entry) ==
  \E n \in {yamlTechIndex(entry)} : n > 0 /\ entry.items[n].key \in TechIds

\* isNaN(parsed) ? value : parsed, parsed being the value or parseFloat of
\* a string
OrItself(parsed, value) == IF IsNaN(parsed) THEN value ELSE parsed

yamlParsed(value) ==
  OrItself(IF value.k = "str" THEN parseFloat(value) ELSE value, value)

\* Object.entries(rawParams).forEach(...) of the YAML branch
RECURSIVE yamlAssign(_, _, _)
yamlAssign(step, techId, entries) ==
  IF entries = <<>> THEN step
  ELSE LET e == Head(entries)
       IN  yamlAssign(
             IF e.key = <<"tag">> THEN [step EXCEPT !.tag = StringOf(e.value)]
             ELSE IF HasFullKey(techId, e.key)
             THEN [step EXCEPT !.params =
                     Put(@, FullKey(techId, e.key), yamlParsed(e.value))]
             ELSE step,
             techId, Tail(entries))

\* the callback of procSteps.map for an entry that resolves
yamlItemStep(item, id, fresh) ==
  yamlAssign(createDefaultStep(item.key, id, fresh), item.key, item.body)

yamlStep(entry, id, fresh) ==
  WithTag(yamlItemStep(entry.items[yamlTechIndex(entry)], id, fresh), entry.tag)

\* procSteps.map(...).filter(Boolean), from entry n on
RECURSIVE yamlFrom(_, _, _, _)
yamlFrom(procSteps, n, ids, fresh) ==
  IF n > Len(procSteps) THEN <<>>
  ELSE (IF yamlResolves(procSteps[n])
        THEN <<yamlStep(procSteps[n], ids[n], fresh + n - 1)>>
        ELSE <<>>)
       \o yamlFrom(procSteps, n + 1, ids, fresh)

yamlSteps(procSteps, ids, fresh) ==
  [threw |-> \E n \in 1..Len(procSteps) : yamlThrows(procSteps[n]),
   steps |-> yamlFrom(procSteps, 1, ids, fresh)]

\* A file is [ext, read, data]: the kind of name it has ("json" for
\* .json, "yaml" for .ecproc, .yaml and .yml, "other"), whether
\* handleImport has read it, and its parsed content
\*   [shape, wrapped, metadata, system, steps]
\* shape: "object", "null", "scalar" or "unparsable" (the parser throws);
\* wrapped: the content sits under _procedure; metadata, system, steps:
\* optional values.

\* the setMetadata updater of the JSON branch
jsonMetadata(prev, data) ==
  [prev EXCEPT
     !.name              = OrElse(Field(data.metadata, "name"), @, ""),
     !.electrodes        = Coalesce(Field(data.system, "electrodes"), @),
     !.reference         = OrElse(Field(data.system, "reference"), @, ""),
     !.electrolyte       = OrElse(Field(data.system, "electrolyte"), @, ""),
     !.temperature       = Coalesce(Field(data.system, "temperature_C"),
                             Coalesce(Field(data.system, "temperature"), @)),
     !.working_electrode = OrElse(Field(data.system, "working_electrode"), @, ""),
     !.counter_electrode = OrElse(Field(data.system, "counter_electrode"), @, "")]

\* the setMetadata updater of the YAML branch (the document's name is its
\* metadata.protocol)
yamlMetadata(prev, data) ==
  [prev EXCEPT
     !.name              = OrElse(Field(data.metadata, "name"), @, ""),
     !.author            = OrElse(Field(data.metadata, "author"), @, ""),
     !.description       = OrElse(Field(data.metadata, "description"), @, ""),
     !.electrodes        = Coalesce(Field(data.system, "electrodes"), @),
     !.reference         = OrElse(Field(data.system, "reference"), @, ""),
     !.electrolyte       = OrElse(Field(data.system, "electrolyte"), @, ""),
     !.temperature       = Coalesce(Field(data.system, "temperature"), @),
     !.working_electrode = OrElse(Field(data.system, "working_electrode"), @, ""),
     !.counter_electrode = OrElse(Field(data.system, "counter_electrode"), @, "")]

\* reader.onload of handleImport for file f: the metadata and steps the
\* editor holds afterwards, and whether the catch block ran
handleImportResult(f, ids) ==
  LET data    == f.data
      nothing == [metadata |-> metadata, steps |-> steps, failed |-> FALSE]
      thrown_ == [metadata |-> metadata, steps |-> steps, failed |-> TRUE]
      outcome(md, rec) ==
        IF rec.threw THEN [metadata |-> md, steps |-> steps, failed |-> TRUE]
        ELSE [metadata |-> md,
              steps    |-> IF Len(rec.steps) > 0 THEN rec.steps ELSE steps,
              failed   |-> FALSE]
  IN  CASE f.ext = "yaml" ->
             IF data.shape = "unparsable" THEN thrown_
             ELSE IF data.shape # "object" THEN nothing
             ELSE LET md == IF data.metadata # <<>> \/ data.system # <<>>
                            THEN yamlMetadata(metadata, data) ELSE metadata
                  IN  IF data.steps = <<>>
                      THEN [metadata |-> md, steps |-> steps, failed |-> FALSE]
                      ELSE outcome(md, yamlSteps(data.steps[1], ids, nextId))
        [] f.ext = "json" ->
             IF data.shape \in {"unparsable", "null"} THEN thrown_
             ELSE IF data.shape # "object" \/ ~data.wrapped THEN nothing
             ELSE LET md == jsonMetadata(metadata, data)
                  IN  IF data.steps = <<>>
                      THEN [metadata |-> md, steps |-> steps, failed |-> FALSE]
                      ELSE outcome(md, reconstructSteps(data.steps[1], ids, nextId))
        [] OTHER -> nothing

\* the elements of the file's step array for which createDefaultStep
\* returns a step
CreatesStep(f) ==
  IF f.data.shape # "object" \/ f.data.steps = <<>> THEN <<>>
  ELSE [n \in 1..Len(f.data.steps[1]) |->
          IF f.ext = "yaml" THEN yamlResolves(f.data.steps[1][n])
          ELSE f.ext = "json" /\ f.data.wrapped
               /\ rawResolves(f.data.steps[1][n])]

\* the ids of the steps of a list
IdsOf(steps_) == {steps_[n].id : n \in 1..Len(steps_)}

\* Math.random(): its suffix is one that an id of this millisecond
\* already carries (the least of them stands for all), or any other value
\* (the least unused number stands for all)
RandomDraws(used) ==
  {r \in used : \A u \in used : r <= u}
  \cup {CHOOSE r \in 1..(Cardinality(used) + 1) : r \notin used}

\* the suffixes carried by the ids of the current millisecond
DrawnNow(ids) == {id[2] : id \in {x \in ids : Len(x) = 2 /\ x[1] = clock}}

\* the ids generated by successive createDefaultStep calls, one for every
\* TRUE of `creates` (<<>> stands at the other positions)
RECURSIVE DrawSeqs(_, _)
DrawSeqs(creates, used) ==
  IF creates = <<>> THEN {<<>>}
  ELSE IF ~Head(creates)
  THEN {<< <<>> >> \o rest : rest \in DrawSeqs(Tail(creates), used)}
  ELSE UNION {{<<StepId(clock, r)>> \o rest :
                 rest \in DrawSeqs(Tail(creates), used \cup {r})} :
              r \in RandomDraws(used)}

\* handleImport: the user picks file f and reader.onload runs
HandleImport(f, ids) ==
  \E result \in {handleImportResult(f, ids)} :
      /\ metadata' = result.metadata
      /\ steps' = result.steps
      /\ logged' = IF result.failed THEN <<"Import failed:">> ELSE <<>>
      /\ retired' = retired \cup (IdsOf(steps) \ IdsOf(result.steps))
      /\ nextId' = nextId + Len(ids)
      /\ origin' = IF [f EXCEPT !.read = TRUE] = [file EXCEPT !.read = TRUE]
                   THEN origin ELSE <<>>
      /\ file' = [f EXCEPT !.read = TRUE]
      /\ thrown' = <<>>
      /\ UNCHANGED <<stepIssues, procIssues, valid, callVars, clock>>
      /\ UNCHANGED <<overwritten, storeVars>>
---------------------------------------------------------------------------
(* Files: the editor generates a file from its steps, and the user picks  *)
(* a generated or a hand-written file for import.                          *)

\* CodeOutput.downloadFile: the file written for a format
generatedFile(format) ==
  CASE format = "yaml" ->
         [ext |-> "yaml", read |-> FALSE, data |-> generateYAML(metadata, steps)]
    [] format = "ecdl" ->
         [ext |-> "json", read |-> FALSE, data |-> generateECDL(metadata, steps)]
    [] format = "ir" ->
         [ext |-> "json", read |-> FALSE, data |-> generateIR(metadata, steps)]

Download(format) ==
  /\ file' = generatedFile(format)
  /\ origin' = steps
  /\ logged' = <<>>
  /\ thrown' = <<>>
  /\ UNCHANGED <<steps, metadata, nextId, stepIssues, procIssues, valid>>
  /\ UNCHANGED <<callVars, clock, retired, overwritten, storeVars>>

\* the step lists files are generated from: one step of any technique, at
\* its defaults, tagged, or with one parameter set to a value of Pool; and
\* the lists of two default steps of FileTechs
FileTechs == {"cv", "eis", "purge"}

EditedStep(t, key, value) ==
  [createDefaultStep(t, StepId(0, 1), 1) EXCEPT !.params = Put(@, key, value)]

FileInputs ==
  {<<createDefaultStep(t, StepId(0, 1), 1)>> : t \in TechIds}
  \cup {<<[createDefaultStep(t, StepId(0, 1), 1) EXCEPT !.tag = "baseline"]>> :
          t \in FileTechs}
  \cup UNION {UNION {{<<EditedStep(t, key, value)>> :
                        value \in Pool(t, key) \ {DefaultOf(t, key)}} :
                     key \in DOMAIN TECHNIQUES[t].params} :
              t \in TechIds}
  \cup {<<createDefaultStep(a, StepId(0, 1), 1),
          createDefaultStep(b, StepId(0, 2), 2)>> : a \in FileTechs, b \in FileTechs}

\* elements of the step array of a hand-written file: two well-formed ones,
\* one with an id no technique has, one with an inherited name, and null
PickedEntries(ext) ==
  IF ext = "json"
  THEN {[kind |-> "object", technique |-> Str("cv"),
         params |-> <<<<[key |-> Split("cycles"), value |-> Dec(5, 0)]>>>>,
         top |-> <<>>, tag |-> Str("activation")],
        [kind |-> "object", technique |-> Str("eis"), params |-> <<>>,
         top |-> <<>>, tag |-> UNDEFINED],
        [kind |-> "object", technique |-> Str("fake"), params |-> <<>>,
         top |-> <<>>, tag |-> UNDEFINED],
        [kind |-> "object", technique |-> Str("constructor"), params |-> <<>>,
         top |-> <<>>, tag |-> UNDEFINED],
        [kind |-> "null", technique |-> UNDEFINED, params |-> <<>>,
         top |-> <<>>, tag |-> UNDEFINED]}
  ELSE {[kind |-> "object",
         items |-> <<[key |-> "cv",
                      body |-> <<[key |-> Split("cycles"), value |-> Dec(5, 0)]>>]>>,
         tag |-> Str("activation")],
        [kind |-> "object", items |-> <<[key |-> "eis", body |-> <<>>]>>,
         tag |-> UNDEFINED],
        [kind |-> "object", items |-> <<[key |-> "fake", body |-> <<>>]>>,
         tag |-> UNDEFINED],
        [kind |-> "object", items |-> <<[key |-> "constructor", body |-> <<>>]>>,
         tag |-> UNDEFINED],
        [kind |-> "null", items |-> <<>>, tag |-> UNDEFINED]}

MaxEntries == 2

\* hand-written files that name the procedure "Imported" and hold a step
\* array of one untagged element
LabelledFiles ==
  UNION {{[ext  |-> ext, read |-> FALSE,
           data |-> [shape |-> "object", wrapped |-> ext = "json",
                     metadata |-> <<[name |-> <<"Imported">>, author |-> <<>>,
                                     description |-> <<>>]>>,
                     system |-> <<>>, steps |-> << <<entry>> >>, ir |-> <<>>]] :
            entry \in {e \in PickedEntries(ext) : e.tag = UNDEFINED}} :
         ext \in {"json", "yaml"}}

\* hand-written files: a step array of up to MaxEntries elements and no
\* metadata, and the labelled ones
PickedFiles ==
  LabelledFiles \cup
  UNION {{[ext  |-> ext, read |-> FALSE,
           data |-> [shape |-> "object", wrapped |-> ext = "json",
                     metadata |-> <<>>, system |-> <<>>,
                     steps |-> <<entries>>, ir |-> <<>>]] :
            entries \in UNION {[1..n -> PickedEntries(ext)] : n \in 1..MaxEntries}} :
         ext \in {"json", "yaml"}}
  \cup {[ext  |-> ext, read |-> FALSE,
         data |-> [shape |-> shape, wrapped |-> FALSE, metadata |-> <<>>,
                   system |-> <<>>, steps |-> <<>>, ir |-> <<>>]] :
          ext \in {"json", "yaml", "other"}, shape \in {"unparsable", "null"}}

\* createDefaultStep calls an exploration may make
MaxAlloc == 5

\* hand-written files are imported into an editor that holds no step or
\* one default step
PickTargets == {<<>>, <<createDefaultStep("ocp", StepId(0, 1), 1)>>}

InitFiles ==
  /\ steps \in FileInputs \cup {<<>>}
  /\ metadata = defaultMetadata
  /\ nextId = 3
  /\ thrown = <<>>
  /\ stepIssues = <<>>
  /\ procIssues = <<>>
  /\ valid = TRUE
  /\ InitCallVars
  /\ clock = 1
  /\ file = NoFile
  /\ origin = <<>>
  /\ retired = {}
  /\ logged = <<>>
  /\ overwritten = {}
  /\ InitStoreVars

ImportOf(f) ==
  /\ nextId + Len(CreatesStep(f)) <= MaxAlloc + 1
  /\ \E ids \in DrawSeqs(CreatesStep(f), DrawnNow(IdsOf(steps) \cup retired)) :
       HandleImport(f, ids)

NextFiles ==
  \/ \E format \in {"yaml", "ecdl", "ir"} : Download(format)
  \/ file # NoFile /\ ImportOf(file)
  \/ steps \in PickTargets /\ \E f \in PickedFiles : ImportOf(f)

SpecFiles == InitFiles /\ [][NextFiles]_vars
---------------------------------------------------------------------------
(* App.jsx: the editor's step list *)

\* createDefaultStep calls and milliseconds an exploration may use
MaxCreated == 5
MaxClock == 1

\* steps an exploration may hold off their defaults at a time
MaxEdited == 1

\* the step list passed to useLocalStorage: purge, ocp, cv, eis, created
\* in one render, with four different draws of Math.random()
InitialTechniques == <<"purge", "ocp", "cv", "eis">>

InitialSteps(ids) ==
  [n \in 1..Len(InitialTechniques) |->
     createDefaultStep(InitialTechniques[n], ids[n], n)]

InitEditor ==
  /\ clock = 0
  /\ retired = {}
  /\ steps = InitialSteps([n \in 1..Len(InitialTechniques) |-> StepId(clock, n)])
  /\ metadata = defaultMetadata
  /\ nextId = Len(InitialTechniques) + 1
  /\ thrown = <<>>
  /\ stepIssues = <<>>
  /\ procIssues = <<>>
  /\ valid = TRUE
  /\ InitCallVars
  /\ file = NoFile
  /\ origin = <<>>
  /\ logged = <<>>
  /\ overwritten = {}
  /\ InitStoreVars

\* what a handler of the step list leaves alone (the validators run at
\* render time and keep no state)
Rendered ==
  /\ thrown' = <<>>
  /\ UNCHANGED <<stepIssues, procIssues, valid>>
  /\ UNCHANGED <<metadata, callVars, file, origin, logged, clock>>

\* addStep(techniqueId); Math.random() yields `random`.  The handlers
\* build the new list in a new array ([...steps], steps.filter) and assign
\* no position of the array they were handed.
addStep(techniqueId, random) ==
  /\ steps' = Append(steps, createDefaultStep(techniqueId,
                                               StepId(clock, random), nextId))
  /\ overwritten' = {}
  /\ nextId' = nextId + 1
  /\ retired' = retired
  /\ Rendered

\* updateStep(index, newStep), index counted from 0
updateStep(index, newStep) ==
  /\ steps' = [steps EXCEPT ![index + 1] = newStep]
  /\ overwritten' = {}
  /\ UNCHANGED <<nextId, retired>>
  /\ Rendered

\* removeStep(index)
removeStep(index) ==
  /\ steps' = [n \in 1..(Len(steps) - 1) |->
                 IF n < index + 1 THEN steps[n] ELSE steps[n + 1]]
  /\ overwritten' = {}
  /\ retired' = retired \cup (IdsOf(steps) \ IdsOf(steps'))
  /\ UNCHANGED nextId
  /\ Rendered

\* the two elements of an array exchanged
Swapped(list, a, b) == [list EXCEPT ![a] = list[b], ![b] = list[a]]

\* moveStep that exchanges the two elements in the array it was handed
moveStepInPlace(index, direction) ==
  LET newIndex == index + direction
  IN  /\ steps' = IF newIndex < 0 \/ newIndex >= Len(steps) THEN steps
                  ELSE Swapped(steps, index + 1, newIndex + 1)
      /\ overwritten' = IF newIndex < 0 \/ newIndex >= Len(steps) THEN {}
                     ELSE {index + 1, newIndex + 1}
      /\ UNCHANGED <<nextId, retired>>
      /\ Rendered

\* moveStep(index, direction)
moveStep(index, direction) ==
  LET newIndex == index + direction
  IN  /\ steps' = IF newIndex < 0 \/ newIndex >= Len(steps) THEN steps
                  ELSE Swapped(steps, index + 1, newIndex + 1)
      /\ overwritten' = {}
      /\ UNCHANGED <<nextId, retired>>
      /\ Rendered

\* a millisecond passes
Tick ==
  /\ clock < MaxClock
  /\ clock' = clock + 1
  /\ UNCHANGED <<libVars, callVars, file, origin, retired, logged>>
  /\ UNCHANGED <<overwritten, storeVars>>

\* what StepEditor passes to onUpdate for a step: the step with the field
\* of its first numeric parameter emptied
StepEdits(step) ==
  LET numeric == {n \in 1..Len(step.params) :
                    TECHNIQUES[step.technique].params[step.params[n].key].type
                      \in {"number", "integer"}}
      first   == CHOOSE n \in numeric : \A m \in numeric : n <= m
  IN  {[step EXCEPT !.params = Put(@, step.params[first].key, NULL)]}

Edited(step) ==
  step # createDefaultStep(step.technique, step.id, step.obj)

CanEdit(index) ==
  Cardinality({n \in 1..Len(steps) : n # index + 1 /\ Edited(steps[n])})
    < MaxEdited

\* the techniques the add menu is used for
AddedTechs == {"ca"}

\* a file with one cv step
EditorFile ==
  [ext  |-> "json", read |-> FALSE,
   data |-> [shape |-> "object", wrapped |-> TRUE, metadata |-> <<>>,
             system |-> <<>>, ir |-> <<>>,
             steps |-> << <<[kind |-> "object", technique |-> Str("cv"),
                              params |-> <<>>, top |-> <<>>,
                              tag |-> UNDEFINED]>> >>]]

CanCreate(n) == nextId + n <= MaxCreated + 1

NextEditor ==
  \/ CanCreate(1) /\ \E t \in AddedTechs :
       \E random \in RandomDraws(DrawnNow(IdsOf(steps) \cup retired)) :
         addStep(t, random) /\ UNCHANGED storeVars
  \/ \E index \in 0..(Len(steps) - 1) :
       CanEdit(index) /\ \E newStep \in StepEdits(steps[index + 1]) :
         updateStep(index, newStep) /\ UNCHANGED storeVars
  \/ \E index \in 0..(Len(steps) - 1) : removeStep(index) /\ UNCHANGED storeVars
  \/ \E index \in 0..(Len(steps) - 1) : \E direction \in {-1, 1} :
       moveStep(index, direction) /\ UNCHANGED storeVars
  \/ Tick
  \/ CanCreate(1) /\
       \E ids \in DrawSeqs(CreatesStep(EditorFile),
                           DrawnNow(IdsOf(steps) \cup retired)) :
         HandleImport(EditorFile, ids)

SpecEditor == InitEditor /\ [][NextEditor]_vars
---------------------------------------------------------------------------
(* App.jsx: the step list under the four handlers of the step cards *)

\* the tag field of a step card typed into, or cleared
TagEdits(step) == {[step EXCEPT !.tag = IF @ = "" THEN "baseline" ELSE ""]}

\* onUpdate with a parameter written under the name of the tag field
ListEditsMisfiled(step) ==
  StepEdits(step) \cup {[step EXCEPT !.params = Put(@, "tag", Str("baseline"))]}

\* what StepEditor passes to onUpdate: { ...step, params: { ...step.params,
\* [k]: v } } from a parameter field, { ...step, tag } from the tag field
ListEdits(step) == StepEdits(step) \cup TagEdits(step)

NextList ==
  \/ CanCreate(1) /\ \E t \in AddedTechs :
       \E random \in RandomDraws(DrawnNow(IdsOf(steps) \cup retired)) :
         addStep(t, random) /\ UNCHANGED storeVars
  \/ \E index \in 0..(Len(steps) - 1) :
       CanEdit(index) /\ \E newStep \in ListEdits(steps[index + 1]) :
         updateStep(index, newStep) /\ UNCHANGED storeVars
  \/ \E index \in 0..(Len(steps) - 1) : removeStep(index) /\ UNCHANGED storeVars
  \/ \E index \in 0..(Len(steps) - 1) : \E direction \in {-1, 1} :
       moveStep(index, direction) /\ UNCHANGED storeVars

SpecList == InitEditor /\ [][NextList]_vars
---------------------------------------------------------------------------
(* hooks/useLocalStorage: the state of the editor kept in localStorage *)

\* What is kept under STORAGE_KEY is
\*   [kind, metadata, steps]
\* kind: "missing" (getItem returns null), "unparsable" (JSON.parse
\* throws), "null" (the text null) or "json" (an object); metadata and
\* steps: <<>> when the property is absent or of another type, else <<v>>.

\* a step as JSON.stringify writes it and JSON.parse reads it
storedStep(step) ==
  LET kept == SelectSeq(step.params, LAMBDA e : e.value.k # "undefined")
  IN  [id        |-> step.id,
       technique |-> step.technique,
       params    |-> [n \in 1..Len(kept) |->
                        [key |-> kept[n].key, value |-> jsonValue(kept[n].value)]],
       tag       |-> step.tag]

\* JSON.stringify({ metadata, steps })
stringified(metadata_, steps_) ==
  [kind     |-> "json",
   metadata |-> <<metadata_>>,
   steps    |-> <<[n \in 1..Len(steps_) |-> storedStep(steps_[n])]>>]

\* { ...defaultMetadata, ...parsed.metadata }
Spread(a, b) ==
  [f \in DOMAIN a \cup DOMAIN b |-> IF f \in DOMAIN b THEN b[f] ELSE a[f]]

\* the initialiser of the metadata state
loadMetadata(item, defaultMetadata_) ==
  IF item.kind = "json" /\ item.metadata # <<>>
  THEN Spread(defaultMetadata_, item.metadata[1])
  ELSE defaultMetadata_

\* the initialiser of the steps state; the parsed steps are new objects
loadSteps(item, defaultSteps) ==
  IF item.kind = "json" /\ item.steps # <<>> /\ Len(item.steps[1]) > 0
  THEN [n \in 1..Len(item.steps[1]) |->
          [id |-> item.steps[1][n].id, technique |-> item.steps[1][n].technique,
           params |-> item.steps[1][n].params, tag |-> item.steps[1][n].tag,
           obj |-> n]]
  ELSE defaultSteps

\* the timeouts left by clearTimeout(ref)
Cleared(pending, ref) == {t \in pending : t.id # ref}

\* setTimeout returns an id that no pending timeout has
NewTimer(pending, ref) ==
  CHOOSE n \in 1..(Cardinality(pending) + 2) :
    /\ n # ref
    /\ \A t \in pending : t.id # n
    /\ \A m \in 1..(n - 1) : m = ref \/ \E t \in pending : t.id = m

\* the effect without clearTimeout: every render sets one more timeout
saveEffectWithoutClear(ref, metadata_, steps_) ==
  /\ timers' = timers \cup {[id |-> NewTimer(timers, ref),
                              metadata |-> metadata_, steps |-> steps_]}
  /\ timerRef' = NewTimer(timers, ref)

\* useEffect(..., [metadata, steps]) after a render with a new metadata or
\* steps: the cleanup of the last run, then clearTimeout and setTimeout;
\* the callback closes over the metadata and steps of this render
saveEffect(ref, metadata_, steps_) ==
  /\ timers' = Cleared(timers, ref)
                 \cup {[id |-> NewTimer(Cleared(timers, ref), ref),
                        metadata |-> metadata_, steps |-> steps_]}
  /\ timerRef' = NewTimer(Cleared(timers, ref), ref)

\* what the hook and its timer leave alone
Kept ==
  /\ thrown' = <<>>
  /\ UNCHANGED <<stepIssues, procIssues, valid, callVars>>
  /\ UNCHANGED <<clock, file, origin, retired, logged, overwritten>>

\* the App component mounts: the two initialisers run, then the effect
\* (timerRef is a new ref, holding null)
Mount ==
  /\ ~mounted
  /\ mounted' = TRUE
  /\ metadata' = loadMetadata(store, defaultMetadata)
  /\ steps' = loadSteps(store,
       InitialSteps([n \in 1..Len(InitialTechniques) |-> StepId(clock, n)]))
  /\ nextId' = Len(steps') + 1
  /\ saveEffect(0, metadata', steps')
  /\ UNCHANGED store
  /\ Kept

\* the App component is torn down: the cleanup of the effect runs
Unmount ==
  /\ mounted
  /\ mounted' = FALSE
  /\ timers' = Cleared(timers, timerRef)
  /\ UNCHANGED <<steps, metadata, nextId, store, timerRef>>
  /\ Kept

\* the electrodes select: setMetadata({ ...metadata, electrodes })
setElectrodes(electrodes) ==
  /\ mounted
  /\ metadata.electrodes # electrodes
  /\ metadata' = [metadata EXCEPT !.electrodes = electrodes]
  /\ saveEffect(timerRef, metadata', steps)
  /\ UNCHANGED <<steps, nextId, store, mounted>>
  /\ Kept

\* removeStep(index), and the effect after the render it causes
RemoveAndRender(index) ==
  /\ mounted
  /\ removeStep(index)
  /\ saveEffect(timerRef, metadata, steps')
  /\ UNCHANGED <<store, mounted>>

\* the callback of the timeout t runs: localStorage.setItem succeeds, or
\* throws (storage full or unavailable) and the catch block ignores it
TimerFires(t, succeeds) ==
  /\ timers' = timers \ {t}
  /\ store' = IF succeeds THEN stringified(t.metadata, t.steps) ELSE store
  /\ UNCHANGED <<steps, metadata, nextId, timerRef, mounted>>
  /\ Kept

\* what localStorage holds when the page is opened: nothing, a text that
\* is no JSON, the text null, or an object with a name only
InitialItems ==
  {NoItem,
   [kind |-> "unparsable", metadata |-> <<>>, steps |-> <<>>],
   [kind |-> "null", metadata |-> <<>>, steps |-> <<>>],
   [kind |-> "json", metadata |-> <<[name |-> "Old"]>>, steps |-> <<>>]}

InitStorage ==
  /\ store \in InitialItems
  /\ mounted = FALSE
  /\ timers = {}
  /\ timerRef = 0
  /\ steps = <<>>
  /\ metadata = defaultMetadata
  /\ nextId = 1
  /\ thrown = <<>>
  /\ stepIssues = <<>>
  /\ procIssues = <<>>
  /\ valid = TRUE
  /\ InitCallVars
  /\ clock = 0
  /\ file = NoFile
  /\ origin = <<>>
  /\ retired = {}
  /\ logged = <<>>
  /\ overwritten = {}

\* the choices of the electrodes select
ElectrodeOptions == {2, 3}

NextStorage ==
  \/ Mount
  \/ Unmount
  \/ \E electrodes \in ElectrodeOptions : setElectrodes(electrodes)
  \/ \E index \in 0..(Len(steps) - 1) : RemoveAndRender(index)
  \/ \E t \in timers : \E succeeds \in BOOLEAN : TimerFires(t, succeeds)

SpecStorage == InitStorage /\ [][NextStorage]_vars

\* the store takes every write, and a pending timeout runs in the end
NextStorageLive ==
  \/ Mount
  \/ Unmount
  \/ \E electrodes \in ElectrodeOptions : setElectrodes(electrodes)
  \/ \E index \in 0..(Len(steps) - 1) : RemoveAndRender(index)
  \/ \E t \in timers : TimerFires(t, TRUE)

SpecStorageLive ==
  /\ InitStorage
  /\ [][NextStorageLive]_vars
  /\ WF_vars(\E t \in timers : TimerFires(t, TRUE))
---------------------------------------------------------------------------
(* Properties *)

\* positions of a list of issues that satisfy a condition
Where(iss, P(_)) == {n \in 1..Len(iss) : P(iss[n])}

IsError(issue)   == issue.level = "error"
IsWarning(issue) == issue.level = "warning"
HasError(iss)    == Where(iss, IsError) # {}

\* positions of the issues with a given code (and parameter)
Coded(iss, code) == {n \in 1..Len(iss) : iss[n].code = code}
CodedFor(iss, code, param) ==
  {n \in 1..Len(iss) : iss[n].code = code /\ iss[n].param = param}

StepIds == 1..Len(steps)
KnownSteps == {n \in StepIds : steps[n].technique \in TechIds}

\* C1: a step whose technique is not in the catalog gets exactly one issue,
\* PV000 at level error, whatever its params hold.
C1_UnknownTechniqueSingleIssue ==
  \A n \in StepIds :
    steps[n].technique \notin TechIds =>
      /\ Len(stepIssues[n]) = 1
      /\ stepIssues[n][1].code = "PV000"
      /\ stepIssues[n][1].level = "error"

\* C1 witness: an unknown-technique step that carries an out-of-range
\* looking parameter has been validated.
C1_Witness ==
  \E n \in StepIds :
    /\ steps[n].technique \notin TechIds
    /\ Get(steps[n].params, "duration_s") = Neg(Dec(1, 0))
    /\ Len(stepIssues[n]) = 1

\* a step that equals the default step of its technique except that
\* parameter `key` is null
DefaultExceptNull(step, key) ==
  /\ step.technique \in TechIds
  /\ key \in DOMAIN TECHNIQUES[step.technique].params
  /\ step.params = Put(DefaultParams(step.technique), key, NULL)

\* C2 (as claimed): setting one parameter of a default step to null yields no
\* issue of a named (technique-specific) rule for that parameter.
C2_NullNeverFiresNamedRule ==
  \A n \in KnownSteps : \A key \in DOMAIN TECHNIQUES[steps[n].technique].params :
    DefaultExceptNull(steps[n], key) =>
      {m \in 1..Len(stepIssues[n]) :
         stepIssues[n][m].param = key /\ stepIssues[n][m].code # "PV000"} = {}

\* numeric order on parameter values: only numbers are below or above a bound
Below(value, bound) == IsNum(value) /\ NumLt(value, bound)
Above(value, bound) == IsNum(value) /\ NumLt(bound, value)

\* the number of declared bounds of `key` that `value` violates
ViolatedBounds(technique, key, value) ==
  IF key \notin DOMAIN TECHNIQUES[technique].params THEN 0
  ELSE LET d == TECHNIQUES[technique].params[key]
       IN  (IF d.hasMin /\ Below(value, d.min) THEN 1 ELSE 0)
         + (IF d.hasMax /\ Above(value, d.max) THEN 1 ELSE 0)

\* C3 (as claimed): for a resolvable technique, every parameter present on the
\* step has one PV000 issue per declared bound its value violates, and none
\* otherwise (undeclared parameters and parameters without bounds included).
C3_SweepIffOutOfBounds ==
  \A n \in KnownSteps : \A e \in 1..Len(steps[n].params) :
    Cardinality(CodedFor(stepIssues[n], "PV000", steps[n].params[e].key))
      = ViolatedBounds(steps[n].technique, steps[n].params[e].key,
                       steps[n].params[e].value)

\* a named issue and a sweep issue for the same parameter are both present,
\* every named one before every sweep one
BothInOrder(iss, code, param) ==
  /\ CodedFor(iss, code, param) # {}
  /\ CodedFor(iss, "PV000", param) # {}
  /\ \A a \in CodedFor(iss, code, param) :
       \A b \in CodedFor(iss, "PV000", param) : a < b

\* C4: a scan rate above 10000 on a cv or lsv step yields PV001 and a PV000
\* for scan_rate_mV_s, and a potential beyond +-10 V on a ca step yields
\* PV010 and a PV000 for potential_V, the named issue first.
C4_SweepDuplicatesNamedRule ==
  \A n \in KnownSteps :
    /\ (steps[n].technique \in {"cv", "lsv"}
        /\ Above(Get(steps[n].params, "scan_rate_mV_s"), Dec(10000, 0)))
         => BothInOrder(stepIssues[n], "PV001", "scan_rate_mV_s")
    /\ (steps[n].technique = "ca"
        /\ (Above(Get(steps[n].params, "potential_V"), Dec(10, 0))
            \/ Below(Get(steps[n].params, "potential_V"), Neg(Dec(10, 0)))))
         => BothInOrder(stepIssues[n], "PV010", "potential_V")

\* C4 witness: a ca step at -15 V has been validated and carries both issues.
C4_Witness ==
  \E n \in KnownSteps :
    /\ steps[n].technique = "ca"
    /\ Get(steps[n].params, "potential_V") = Neg(Dec(15, 0))
    /\ Coded(stepIssues[n], "PV010") # {}
    /\ CodedFor(stepIssues[n], "PV000", "potential_V") # {}

\* C5: isValid is true exactly when no step has an error-level issue and the
\* procedure-level issues hold no error either.
C5_IsValidIffNoError ==
  valid <=> /\ \A n \in StepIds : ~HasError(stepIssues[n])
            /\ ~HasError(procIssues)

\* C5 witness: a list of two steps with procedure-level warnings is invalid
\* because of an error in its second step only.
C5_Witness ==
  /\ Len(steps) = 2
  /\ ~valid
  /\ ~HasError(stepIssues[1])
  /\ HasError(stepIssues[2])
  /\ procIssues # <<>>
\* the parameters of a step are exactly the declared ones, at their defaults
AtDefaults(step) ==
  /\ step.technique \in TechIds
  /\ Len(step.params) = Cardinality(DOMAIN TECHNIQUES[step.technique].params)
  /\ \A key \in DOMAIN TECHNIQUES[step.technique].params :
       /\ HasKey(step.params, key)
       /\ Get(step.params, key) = TECHNIQUES[step.technique].params[key].default

\* C6, one transition: createDefaultStep throws only for an id outside the
\* catalog and then changes nothing; a step it returns has a catalog
\* technique, an empty tag and exactly the declared keys at their defaults,
\* and leaves the steps built before untouched; an assignment to one
\* step's params changes no other step.
C6_Transition ==
  /\ thrown' # <<>> =>
       /\ thrown'[1] = "Unknown technique"
       /\ thrown'[2] \notin TechIds
       /\ steps' = steps
  /\ Len(steps') = Len(steps) + 1 =>
       /\ SubSeq(steps', 1, Len(steps)) = steps
       /\ steps'[Len(steps')].id # <<>> =>
            /\ AtDefaults(steps'[Len(steps')])
            /\ steps'[Len(steps')].tag = ""
  /\ Len(steps') = Len(steps) =>
       Cardinality({n \in 1..Len(steps) : steps'[n] # steps[n]}) <= 1

\* C6: createDefaultStep fails exactly for unknown ids, returns the catalog
\* defaults otherwise, and the params it returns are a fresh copy.
C6_DefaultStepFreshCopy == [][C6_Transition]_vars

\* C6 witness: two steps of one technique, the first edited after creation,
\* the second still at its defaults.
C6_Witness ==
  /\ Len(steps) = 2
  /\ steps[1].technique = steps[2].technique
  /\ steps[1].technique \in TechIds
  /\ ~AtDefaults(steps[1])
  /\ AtDefaults(steps[2])

\* C7: the unmodified default step of every technique has no error-level
\* issue.
C7_DefaultStepsHaveNoErrors ==
  \A n \in StepIds : AtDefaults(steps[n]) => ~HasError(stepIssues[n])

\* C7 witness: default cv, eis and cc steps (cv and cc have a null default)
\* have been validated.
C7_Witness ==
  /\ Len(steps) = 3
  /\ {steps[n].technique : n \in StepIds} = {"cv", "eis", "cc"}
  /\ \A n \in StepIds : AtDefaults(steps[n])
  /\ Get(steps[CHOOSE n \in StepIds : steps[n].technique = "cc"].params,
         "cutoff_C") = NULL

\* the places <<category, position>> where a technique id is listed
Listings(techniqueId) ==
  {p \in {<<c, i>> : c \in DOMAIN TECHNIQUE_CATEGORIES, i \in 1..5} :
     /\ p[2] <= Len(TECHNIQUE_CATEGORIES[p[1]].techniques)
     /\ TECHNIQUE_CATEGORIES[p[1]].techniques[p[2]] = techniqueId}

\* C8: 12 techniques, the 5 named categories, every listed id registered,
\* every technique listed exactly once, under the category its own
\* category field names; so every step built from the catalog is listed
\* under its technique's category.
C8_CatalogConsistency ==
  /\ Cardinality(TechIds) = 12
  /\ DOMAIN TECHNIQUE_CATEGORIES =
       {"measurement", "voltammetry", "impedance", "chronomethod", "auxiliary"}
  /\ \A c \in DOMAIN TECHNIQUE_CATEGORIES :
       /\ Len(TECHNIQUE_CATEGORIES[c].techniques) <= 5
       /\ \A i \in 1..Len(TECHNIQUE_CATEGORIES[c].techniques) :
            TECHNIQUE_CATEGORIES[c].techniques[i] \in TechIds
  /\ \A t \in TechIds :
       /\ Cardinality(Listings(t)) = 1
       /\ \A p \in Listings(t) : TECHNIQUES[t].category = p[1]
  /\ \A n \in KnownSteps :
       \E p \in Listings(steps[n].technique) :
         TECHNIQUES[steps[n].technique].category = p[1]

\* C8 witness: steps of three different categories have been built from the
\* catalog.
C8_Witness ==
  /\ Len(steps) = 3
  /\ \A n \in StepIds : steps[n].technique \in TechIds
  /\ Cardinality({TECHNIQUES[steps[n].technique].category : n \in StepIds}) = 3

\* the codes of the two namespaces (codes starting with PV, with DR)
PVCodes == {"PV000", "PV001", "PV002", "PV003", "PV004", "PV005", "PV006",
            "PV007", "PV008", "PV009", "PV010", "PV011", "PV012", "PV013"}
DRCodes == {"DR001", "DR002", "DR003", "DR004", "DR005", "DR006", "DR007",
            "DR008", "DR009", "DR010", "DR011"}

WellLevelled(issue) ==
  /\ issue.code \in PVCodes \cup DRCodes
  /\ issue.level = "error" <=> issue.code \in PVCodes
  /\ issue.level = "warning" <=> issue.code \in DRCodes
  /\ issue.level # "info"

\* C9: every issue of validateStep and validateProcedure is an error exactly
\* when its code is a PV code and a warning exactly when it is a DR code.
C9_LevelMatchesCodePrefix ==
  /\ \A n \in StepIds : \A m \in 1..Len(stepIssues[n]) :
       WellLevelled(stepIssues[n][m])
  /\ \A m \in 1..Len(procIssues) : WellLevelled(procIssues[m])

\* C9 witness: one step carries an error and a warning while the procedure
\* carries a warning of its own.
C9_Witness ==
  /\ procIssues # <<>>
  /\ \E n \in StepIds :
       /\ Where(stepIssues[n], IsError) # {}
       /\ Where(stepIssues[n], IsWarning) # {}

\* 1-based position of the first measurement step
FirstMeasurementAt(m) ==
  /\ m \in StepIds
  /\ steps[m].technique \in {"lsv", "cv", "eis"}
  /\ \A k \in 1..(m - 1) : steps[k].technique \notin {"lsv", "cv", "eis"}

\* C10: DR006 is emitted exactly when the first measurement step is not the
\* first step and no cv, purge or ocp step precedes it; its stepIndex is
\* the (0-based) index of that step.
C10_DR006Conditioning ==
  /\ Coded(procIssues, "DR006") # {} <=>
       \E m \in StepIds :
         /\ FirstMeasurementAt(m)
         /\ m > 1
         /\ \A k \in 1..(m - 1) : steps[k].technique \notin {"cv", "purge", "ocp"}
  /\ Cardinality(Coded(procIssues, "DR006")) <= 1
  /\ \A a \in Coded(procIssues, "DR006") :
       \E m \in StepIds : FirstMeasurementAt(m) /\ procIssues[a].stepIndex = {m - 1}

\* C10 witness: the first measurement is the third step, nothing before it
\* conditions, and DR006 points at index 2.
C10_Witness ==
  /\ Len(steps) = 3
  /\ FirstMeasurementAt(3)
  /\ \E a \in Coded(procIssues, "DR006") : procIssues[a].stepIndex = {2}

\* the step list rearranged by a permutation of its positions
Reordered(p) == [n \in StepIds |-> steps[p[n]]]

IrCompensated(n) ==
  /\ HasKey(steps[n].params, "ir_compensation")
  /\ Get(steps[n].params, "ir_compensation") = Bool(TRUE)

\* C12: validateProcedure emits DR008 (once) exactly when some step, of
\* whatever technique, has ir_compensation equal to true and no step of the
\* list is an eis step; every reordering of the list agrees.
C12_DR008IrCompWithoutEis ==
  /\ Coded(procIssues, "DR008") # {} <=>
       /\ \E n \in StepIds : IrCompensated(n)
       /\ \A n \in StepIds : steps[n].technique # "eis"
  /\ Cardinality(Coded(procIssues, "DR008")) <= 1
  /\ \A p \in Permutations(StepIds) :
       Coded(validateProcedure(Reordered(p), metadata), "DR008") # {}
         <=> Coded(procIssues, "DR008") # {}

\* C12 witness: a step whose technique does not declare ir_compensation
\* carries it set to true, no eis step is in the list, and DR008 is emitted.
C12_Witness ==
  /\ \E n \in StepIds :
       /\ steps[n].technique \in TechIds
       /\ "ir_compensation" \notin DOMAIN TECHNIQUES[steps[n].technique].params
       /\ IrCompensated(n)
  /\ Len(steps) = 2
  /\ Coded(procIssues, "DR008") # {}

\* the positions of the input that hold an issue of a level, and the
\* k-th of them in input order
AtLevel(level) == {n \in 1..Len(issues) : issues[n].level = level}
KthAtLevel(level, k) ==
  CHOOSE n \in AtLevel(level) :
    Cardinality({m \in AtLevel(level) : m <= n}) = k

\* `part` is the sub-sequence of the input made of the issues of a level
IsPartition(part, level) ==
  /\ Len(part) = Cardinality(AtLevel(level))
  /\ \A k \in 1..Len(part) : part[k] = issues[KthAtLevel(level, k)]

\* C13: after summarizeIssues(issues), errors, warnings and infos are the
\* issues of level error, warning and info in input order; when every
\* issue has one of these levels the three lengths add up to the length of
\* the input.
C13_SummarizePartitions ==
  <<"summarizeIssues", 0>> \in called =>
    /\ IsPartition(summary.errors, "error")
    /\ IsPartition(summary.warnings, "warning")
    /\ IsPartition(summary.infos, "info")
    /\ (\A n \in 1..Len(issues) : issues[n].level \in {"error", "warning", "info"})
         => Len(summary.errors) + Len(summary.warnings) + Len(summary.infos)
              = Len(issues)

\* C13 witness: a summarized input with a warning, an info issue and a
\* second, different warning, in this order.
C13_Witness ==
  /\ <<"summarizeIssues", 0>> \in called
  /\ Len(issues) = 3
  /\ issues[1].level = "warning" /\ issues[2].level = "info"
  /\ issues[3].level = "warning" /\ issues[3] # issues[1]
  /\ summary.warnings = <<issues[1], issues[3]>>

\* C14, one transition: a call leaves the step list (with every step's
\* technique, params and tag), the metadata and the issue list as they
\* were, and a function called before returns what it returned before.
C14_Transition ==
  /\ steps' = steps
  /\ metadata' = metadata
  /\ issues' = issues
  /\ \A c \in called :
       /\ c[1] = "validateStep" => stepIssues'[c[2]] = stepIssues[c[2]]
       /\ c[1] = "validateProcedure" => procIssues' = procIssues
       /\ c[1] = "isValid" => valid' = valid
       /\ c[1] = "summarizeIssues" => summary' = summary

NamedTechnique(ext, entry) ==
  IF entry.kind # "object" THEN <<>>
  ELSE IF ext = "json"
  THEN IF entry.technique.k = "str" /\ entry.technique.s \in TechIds
       THEN <<entry.technique.s>> ELSE <<>>
  ELSE LET named == {n \in 1..Len(entry.items) : entry.items[n].key \in TechIds}
       IN  IF named = {} THEN <<>>
           ELSE <<entry.items[CHOOSE n \in named : \A m \in named : n <= m].key>>

RECURSIVE NamedTechniques(_, _)
NamedTechniques(ext, entries) ==
  IF entries = <<>> THEN <<>>
  ELSE NamedTechnique(ext, Head(entries)) \o NamedTechniques(ext, Tail(entries))

\* the file read last is a document with a step array
ReadStepArray ==
  /\ file.read
  /\ file.data.shape = "object"
  /\ file.data.steps # <<>>
  /\ file.ext = "yaml" \/ (file.ext = "json" /\ file.data.wrapped)

TechniquesOf(steps_) == [n \in 1..Len(steps_) |-> steps_[n].technique]

\* C15: after the import of a file with a step array, nothing was reported
\* as failed, and when the array has an element naming a catalog technique
\* the editor holds one step for every such element, in the order of the
\* array, whatever the other elements are (unknown technique ids, null).
C15_BadEntriesAreSkipped ==
  ReadStepArray =>
    /\ logged = <<>>
    /\ LET expected == NamedTechniques(file.ext, file.data.steps[1])
       IN  expected # <<>> => TechniquesOf(steps) = expected

\* the file read last was generated from the steps `origin`
ReadGenerated(ext, wrapped) ==
  /\ file.read
  /\ file.ext = ext
  /\ file.data.wrapped = wrapped
  /\ origin # <<>>

\* list b has the techniques of list a in the same order, and every
\* parameter of a step of a has the same value in the step of b
SameTechniquesAndParams(a, b) ==
  /\ TechniquesOf(b) = TechniquesOf(a)
  /\ \A n \in 1..Len(a) : \A k \in 1..Len(a[n].params) :
       Get(b[n].params, a[n].params[k].key) = a[n].params[k].value

\* C16: after the import of the YAML-like file generated from a step list,
\* the editor holds steps of the same techniques in the same order, and
\* every parameter has the value it had in the original step, whether or
\* not that is the catalog default.
C16_YamlRoundTrip ==
  ReadGenerated("yaml", FALSE) => SameTechniquesAndParams(origin, steps)

\* C17: the _procedure.steps of the generated ECDL document have the
\* techniques, the full parameter mappings and the tags of the steps, in
\* order; and after its import the editor holds steps of the same
\* techniques in order with the same value for every parameter, null
\* included.
C17_EcdlRoundTrip ==
  /\ (file.ext = "json" /\ file.data.wrapped /\ origin # <<>>) =>
       /\ Len(file.data.steps[1]) = Len(origin)
       /\ \A n \in 1..Len(origin) :
            LET raw == file.data.steps[1][n]
            IN  /\ raw.technique = Str(origin[n].technique)
                /\ raw.params = <<[k \in 1..Len(origin[n].params) |->
                                    [key   |-> Split(origin[n].params[k].key),
                                     value |-> origin[n].params[k].value]]>>
                /\ (origin[n].tag # "" => raw.tag = Str(origin[n].tag))
  /\ ReadGenerated("json", TRUE) => SameTechniquesAndParams(origin, steps)

\* the file was generated as IR from the steps `origin`
HoldsIr ==
  /\ file.ext = "json"
  /\ file.data.shape = "object"
  /\ ~file.data.wrapped
  /\ origin # <<>>

\* the key ends with the unit written as `suffix`
HasUnit(tokens, suffix) ==
  /\ Len(tokens) > Len(suffix)
  /\ \A k \in 1..Len(suffix) :
       tokens[Len(tokens) - Len(suffix) + k] = suffix[k]

WithUnit(tokens, suffix, unit) ==
  [k \in 1..(Len(tokens) - Len(suffix)) |-> tokens[k]] \o unit

\* 1000 * c = v, for an IR number c and a parameter value v
IsThousandthOf(c, v) ==
  /\ c.k = "num"
  /\ v.w = Milli * c.w + c.m \div (Scale \div Milli)
  /\ v.m = (c.m % (Scale \div Milli)) * Milli + c.x

\* c = 60 * v
IsSixtyTimes(c, v) ==
  /\ c.k = "num"
  /\ c.x = 0
  /\ \E carry \in 0..59 : /\ c.w = 60 * v.w + carry
                          /\ c.m + carry * Scale = 60 * v.m

\* c = v
IsSameNumber(c, v) == c.k = "num" /\ c.w = v.w /\ c.m = v.m /\ c.x = 0

\* the IR parameters hold `tokens` with a value that stands in `relation`
\* to v (or is v itself when v is not a number)
IrHolds(params, tokens, v, relation(_, _)) ==
  \E k \in 1..Len(params) :
    /\ params[k].key = tokens
    /\ IF v.k = "num" THEN relation(params[k].value, v) ELSE params[k].value = v

NonSiUnits == {<<"mV", "s">>, <<"mV">>, <<"min">>, <<"mA">>}

\* C18: the IR generated from a step list has one step per input step
\* with the same technique, in order; a parameter *_mV_s is held as *_V_s
\* with a thousandth of the value, *_mV as *_V with a thousandth, *_min
\* as *_s with sixty times the value, *_mA as *_A with a thousandth, and
\* any other parameter under its own key with its own value; no IR step
\* holds an original key that ends in mV_s, mV, min or mA.
C18_IrIsInSiUnits ==
  HoldsIr =>
    LET ir == file.data.ir
    IN  /\ Len(ir) = Len(origin)
        /\ \A n \in 1..Len(origin) :
             /\ ir[n].technique = origin[n].technique
             /\ Len(ir[n].params) = Len(origin[n].params)
             /\ \A k \in 1..Len(origin[n].params) :
                  LET tokens == KeyTokens[origin[n].params[k].key]
                  IN  (\E u \in NonSiUnits : HasUnit(tokens, u)) =>
                        \A j \in 1..Len(ir[n].params) :
                          ir[n].params[j].key # tokens
             /\ \A k \in 1..Len(origin[n].params) :
                  LET tokens == KeyTokens[origin[n].params[k].key]
                      v      == origin[n].params[k].value
                      held   == ir[n].params
                  IN  CASE HasUnit(tokens, <<"mV", "s">>) ->
                             IrHolds(held, WithUnit(tokens, <<"mV", "s">>, <<"V", "s">>),
                                     v, IsThousandthOf)
                        [] HasUnit(tokens, <<"mV">>) ->
                             IrHolds(held, WithUnit(tokens, <<"mV">>, <<"V">>),
                                     v, IsThousandthOf)
                        [] HasUnit(tokens, <<"min">>) ->
                             IrHolds(held, WithUnit(tokens, <<"min">>, <<"s">>),
                                     v, IsSixtyTimes)
                        [] HasUnit(tokens, <<"mA">>) ->
                             IrHolds(held, WithUnit(tokens, <<"mA">>, <<"A">>),
                                     v, IsThousandthOf)
                        [] OTHER -> IrHolds(held, tokens, v, IsSameNumber)

\* the IR of a purge step of 20 minutes holds duration_s = 1200
C18_Witness ==
  /\ HoldsIr
  /\ Len(origin) = 1
  /\ origin[1].technique = "purge"
  /\ Get(origin[1].params, "duration_min") = Dec(20, 0)
  /\ \E k \in 1..Len(file.data.ir[1].params) :
       /\ file.data.ir[1].params[k].key = <<"duration", "s">>
       /\ file.data.ir[1].params[k].value = IrNum(1200, 0, 0)

\* the techniques of the steps in the editor
TechniquesInUse == {steps[n].technique : n \in 1..Len(steps)} \cap TechIds

\* no two parameters of the technique have the same short key
ShortKeysDistinct(t) ==
  \A a \in DOMAIN TECHNIQUES[t].params : \A b \in DOMAIN TECHNIQUES[t].params :
    a # b => cleanParamKey(t, a) # cleanParamKey(t, b)

\* the import's map takes the short key of every parameter of the
\* technique back to that parameter
ShortKeysMapBack(t) ==
  \A a \in DOMAIN TECHNIQUES[t].params :
    /\ HasFullKey(t, cleanParamKey(t, a))
    /\ FullKey(t, cleanParamKey(t, a)) = a

\* C19: for the technique of every step, the short keys of its parameters
\* are pairwise distinct (eis: f_start and f_end; cv: scan_rate), and the
\* map the import builds takes each short key back to the one parameter
\* it was made from.
C19_ShortKeysAreUnambiguous ==
  \A t \in TechniquesInUse :
    /\ ShortKeysDistinct(t)
    /\ t = "eis" => /\ cleanParamKey(t, "f_start_Hz") = <<"f", "start">>
                    /\ cleanParamKey(t, "f_end_Hz") = <<"f", "end">>
    /\ t = "cv" => cleanParamKey(t, "scan_rate_mV_s") = <<"scan", "rate">>
    /\ ShortKeysMapBack(t)

\* C20: the steps of the list have pairwise different ids, and no step of
\* the list has an id that a step removed earlier had.
C20_StepIdsAreUniqueAndNeverReused ==
  /\ \A a \in 1..Len(steps) : \A b \in 1..Len(steps) :
       a # b => steps[a].id # steps[b].id
  /\ \A a \in 1..Len(steps) : steps[a].id \notin retired

\* the named amplitude rules that fired for a step
AmplitudeCodes == {"PV008", "DR005", "PV009"}
AmplitudeFired(iss) == {code \in AmplitudeCodes : Coded(iss, code) # {}}

\* the rule the value range of an amplitude a calls for
AmplitudeExpected(a) ==
  IF ~NumLt(Dec(0, 0), a) THEN {"PV008"}
  ELSE IF ~NumLt(Dec(10, 0), a) THEN {}
  ELSE IF ~NumLt(Dec(100, 0), a) THEN {"DR005"}
  ELSE {"PV009"}

\* C23: for an eis step with a numeric amplitude_mV = a, the named amplitude
\* rules partition the range: a <= 0 gives PV008 only, 0 < a <= 10 none,
\* 10 < a <= 100 DR005 only and a > 100 PV009 only, each at most once and for
\* parameter amplitude_mV; DR005 never comes with an error of a named rule
\* about the amplitude.
C23_AmplitudeRulesPartition ==
  \A n \in KnownSteps :
    (steps[n].technique = "eis" /\ IsNum(Get(steps[n].params, "amplitude_mV")))
      => /\ AmplitudeFired(stepIssues[n])
              = AmplitudeExpected(Get(steps[n].params, "amplitude_mV"))
         /\ \A code \in AmplitudeCodes :
              /\ Cardinality(Coded(stepIssues[n], code)) <= 1
              /\ Coded(stepIssues[n], code)
                   = CodedFor(stepIssues[n], code, "amplitude_mV")
         /\ Coded(stepIssues[n], "DR005") # {} =>
              {m \in 1..Len(stepIssues[n]) :
                 /\ stepIssues[n][m].param = "amplitude_mV"
                 /\ IsError(stepIssues[n][m])
                 /\ stepIssues[n][m].code # "PV000"} = {}

\* C23 witness: an eis step at the upper end of the warning range, 100 mV,
\* has been validated and carries DR005 and neither PV008 nor PV009.
C23_Witness ==
  \E n \in KnownSteps :
    /\ steps[n].technique = "eis"
    /\ Get(steps[n].params, "amplitude_mV") = Dec(100, 0)
    /\ AmplitudeFired(stepIssues[n]) = {"DR005"}

\* |v| > 10 for a parameter value (null counts as 0)
Beyond10(v) == Above(v, Dec(10, 0)) \/ Below(v, Neg(Dec(10, 0)))

\* C24: an lsv step gets at most one PV010; it gets one exactly when
\* |start_V| > 10 or |end_V| > 10, and the issue names start_V whenever
\* |start_V| > 10 (also when end_V is out of range too), end_V otherwise.
C24_LsvPotentialLimit ==
  \A n \in KnownSteps :
    steps[n].technique = "lsv" =>
      LET start_V == Get(steps[n].params, "start_V")
          end_V   == Get(steps[n].params, "end_V")
          found   == Coded(stepIssues[n], "PV010")
      IN  /\ Cardinality(found) <= 1
          /\ found # {} <=> (Beyond10(start_V) \/ Beyond10(end_V))
          /\ \A m \in found :
               /\ stepIssues[n][m].level = "error"
               /\ stepIssues[n][m].param
                    = IF Beyond10(start_V) THEN "start_V" ELSE "end_V"

\* C24 witness: an lsv step with start_V = -12 and end_V = 12 has been
\* validated and its PV010 names start_V.
C24_Witness ==
  \E n \in KnownSteps :
    /\ steps[n].technique = "lsv"
    /\ Get(steps[n].params, "start_V") = Neg(Dec(12, 0))
    /\ Get(steps[n].params, "end_V") = Dec(12, 0)
    /\ CodedFor(stepIssues[n], "PV010", "start_V") # {}

\* metadata objects other than the one the list was validated with
OtherMetadata ==
  {defaultMetadata, [metadata EXCEPT !.electrodes = 5 - @],
   [metadata EXCEPT !.reference = "Ag/AgCl", !.temperature = 60], UNDEFINED}

\* the rank of a procedure-level code in the order the rules are written
ProcedureRank(code) ==
  CASE code = "DR006" -> 1 [] code = "DR007" -> 2 [] code = "DR008" -> 3
    [] OTHER -> 0

\* C25: validateProcedure returns warnings only, at most one each of DR006,
\* DR007 and DR008 in that order, whatever the metadata; so isValid is true
\* exactly when no step has an error-level issue of validateStep, and it is
\* the same for every reordering of the steps and every metadata.
C25_ProcedureIssuesAreWarnings ==
  /\ \A a \in 1..Len(procIssues) :
       /\ IsWarning(procIssues[a])
       /\ ProcedureRank(procIssues[a].code) > 0
       /\ \A b \in 1..Len(procIssues) :
            a < b => ProcedureRank(procIssues[a].code)
                       < ProcedureRank(procIssues[b].code)
  /\ Len(procIssues) <= 3
  /\ \A m \in OtherMetadata :
       /\ validateProcedure(steps, m) = procIssues
       /\ isValid(steps, m) = valid
  /\ valid <=> \A n \in StepIds : ~HasError(stepIssues[n])
  /\ \A p \in Permutations(StepIds) : isValid(Reordered(p), metadata) = valid

\* C25 witness: a list that gets all three procedure-level warnings and has
\* no error in any step is valid.
C25_Witness ==
  /\ Len(procIssues) = 3
  /\ procIssues[1].code = "DR006"
  /\ procIssues[3].code = "DR008"
  /\ \A n \in StepIds : ~HasError(stepIssues[n])
  /\ valid

\* the number of positions of a list that hold x
Count(list, x) == Cardinality({n \in 1..Len(list) : list[n] = x})

SameMultiset(a, b) ==
  /\ Len(a) = Len(b)
  /\ \A n \in 1..Len(a) : Count(a, a[n]) = Count(b, a[n])

\* what the claim says of each handler, for the step from the current list
\* to the next
MoveIsSwapOrNothing(index, direction) ==
  LET i == index + 1
      j == index + direction + 1
  IN  /\ SameMultiset(steps, steps')
      /\ IF j < 1 \/ j > Len(steps) THEN steps' = steps
         ELSE /\ steps'[i] = steps[j]
              /\ steps'[j] = steps[i]
              /\ \A n \in 1..Len(steps) : n \notin {i, j} => steps'[n] = steps[n]

RemoveTakesOne(index) ==
  /\ Len(steps') = Len(steps) - 1
  /\ \A n \in 1..Len(steps') :
       steps'[n] = IF n <= index THEN steps[n] ELSE steps[n + 1]

AddAppendsDefault(techniqueId) ==
  /\ Len(steps') = Len(steps) + 1
  /\ SubSeq(steps', 1, Len(steps)) = steps
  /\ steps'[Len(steps')].technique = techniqueId
  /\ steps'[Len(steps')].params = DefaultParams(techniqueId)
  /\ steps'[Len(steps')].tag = ""

UpdateSetsOne(index, newStep) ==
  /\ Len(steps') = Len(steps)
  /\ steps'[index + 1] = newStep
  /\ \A n \in 1..Len(steps) : n # index + 1 => steps'[n] = steps[n]

C29_Transition ==
  /\ \A index \in 0..(Len(steps) - 1) :
       /\ \A direction \in {-1, 1} :
            moveStep(index, direction) => MoveIsSwapOrNothing(index, direction)
       /\ removeStep(index) => RemoveTakesOne(index)
       /\ \A newStep \in ListEdits(steps[index + 1]) :
            updateStep(index, newStep) => UpdateSetsOne(index, newStep)
  /\ \A t \in AddedTechs : \A random \in 1..(MaxCreated + 1) :
       addStep(t, random) => AddAppendsDefault(t)
  /\ overwritten' = {}

\* C29: moveStep(i, d) exchanges the steps at i and i + d and nothing else,
\* does nothing when i + d is out of range, and keeps the length and the
\* multiset of steps; removeStep(i) takes out the step at i and keeps the
\* order of the others; addStep appends one default step; updateStep(i, s)
\* changes position i only; the array handed to the handler is left as it
\* was.
C29_ListOperationsAreWellFormed == [][C29_Transition]_vars

\* C29 witness: the list has been reordered, a step has been added at its
\* end and one of the initial steps has been removed.
C29_Witness ==
  /\ Len(steps) = Len(InitialTechniques)
  /\ steps[Len(steps)].technique \in AddedTechs
  /\ steps[1].technique = "ocp"
  /\ steps[2].technique = "purge"
  /\ overwritten = {}

\* the parameter keys of a step are the keys its technique declares, each
\* once and in the order of the catalog
WellKeyed(step) ==
  /\ step.technique \in TechIds
  /\ [n \in 1..Len(step.params) |-> step.params[n].key]
       = TECHNIQUES[step.technique].keys

C21_Transition ==
  /\ \A a \in 1..Len(steps) : \A b \in 1..Len(steps') :
       steps[a].obj = steps'[b].obj =>
         /\ steps'[b].technique = steps[a].technique
         /\ steps'[b].id = steps[a].id
  /\ \A b \in 1..Len(steps') : WellKeyed(steps'[b])

\* C21: under parameter edits, tag edits, moves, removals (and additions) a
\* step keeps the id and the technique it was created with, and the keys of
\* its params stay exactly the keys the catalog declares for that technique.
C21_TechniqueAndKeysAreKept == [][C21_Transition]_vars

\* C21 witness: the cv step has been given a tag and an emptied parameter
\* and moved to the first position.
C21_Witness ==
  /\ Len(steps) >= 1
  /\ steps[1].technique = "cv"
  /\ steps[1].tag = "baseline"
  /\ \E n \in 1..Len(steps[1].params) : steps[1].params[n].value = NULL
  /\ WellKeyed(steps[1])

\* C26 (as claimed): an import that fails part-way (console.error is called)
\* leaves metadata and the step list as they were, and an import of a file
\* none of whose elements yields a step leaves the step list as it was.
C26_Transition ==
  file'.read =>
    /\ logged' # <<>> => (metadata' = metadata /\ steps' = steps)
    /\ (\A n \in 1..Len(CreatesStep(file')) : ~CreatesStep(file')[n])
         => steps' = steps

C26_ImportIsAllOrNothing == [][C26_Transition]_vars

\* the store holds exactly the metadata and steps of the editor
Saved == store = stringified(metadata, steps)

\* C27: at most one timeout is pending at any time; a write to the store
\* writes the metadata and steps the editor holds at that moment, never an
\* older state; and a write that fails leaves the store, the metadata and
\* the steps as they were and raises nothing.
C27_Transition ==
  /\ Cardinality(timers') <= 1
  /\ store' # store => store' = stringified(metadata', steps')
  /\ \A t \in timers : \A succeeds \in BOOLEAN :
       TimerFires(t, succeeds) =>
         /\ succeeds => store' = stringified(metadata, steps)
         /\ ~succeeds => store' = store
         /\ metadata' = metadata
         /\ steps' = steps
         /\ thrown' = <<>>

C27_DebouncedSaveIsSafe == [][C27_Transition]_vars

\* C27 witness: after a removal the timeout has run and its write has
\* failed: nothing is pending, the editor holds three steps and the store
\* does not hold them.
C27_Witness ==
  /\ mounted
  /\ timers = {}
  /\ Len(steps) = 3
  /\ ~Saved

\* an item that a save of the editor wrote
WrittenByEditor(item) ==
  /\ item.kind = "json"
  /\ item.metadata # <<>>
  /\ item.steps # <<>>
  /\ DOMAIN item.metadata[1] = DOMAIN defaultMetadata

\* C28 (as claimed): mounting the editor on a store that a save wrote
\* yields the saved metadata and the saved step list, the empty list
\* included; mounting it on a missing or unparsable item yields the default
\* metadata and the default steps, and nothing is thrown.
C28_Transition ==
  (~mounted /\ mounted') =>
    /\ WrittenByEditor(store) => stringified(metadata', steps') = store
    /\ store.kind \in {"missing", "unparsable"} =>
         /\ metadata' = defaultMetadata
         /\ [n \in 1..Len(steps') |-> steps'[n].technique] = InitialTechniques
         /\ \A n \in 1..Len(steps') :
              steps'[n].params = DefaultParams(steps'[n].technique)
         /\ thrown' = <<>>

C28_PersistenceRoundTrip == [][C28_Transition]_vars

\* a change of metadata or steps made in the editor
UserChange ==
  \/ \E electrodes \in ElectrodeOptions : setElectrodes(electrodes)
  \/ \E index \in 0..(Len(steps) - 1) : RemoveAndRender(index)

\* C22 (as claimed): when a step has been removed and from some moment on
\* no further change is made, the store eventually holds exactly the
\* metadata and steps of the editor, and keeps them; the last change made
\* before the component is torn down included.
C22_AutosaveLiveness ==
  ((<>(retired # {})) /\ (<>[][~UserChange]_vars)) => <>[]Saved

====
